---- MODULE Spec2Model ----
(***************************************************************************)
(* A model of the Yamaha OPL2 / OPLL FM synthesis core of Clock Signal:     *)
(* the Operator envelope generator (Operator.cpp), the register-write       *)
(* protocol of the two chip personalities and the OPLL's time-divided       *)
(* sample output (OPL2.cpp, OPL2.hpp); and of three of its peers: the ZX    *)
(* Spectrum's video timing (Video.hpp), the 65816's instruction storage     *)
(* (65816Storage.cpp) and the M50740 executor's performer lookup            *)
(* (Executor.hpp).                                                          *)
(*                                                                         *)
(* The specifications share the variables below:                            *)
(*   SpecEnv    one Operator and its OperatorState, advanced by update();   *)
(*   SpecChip   a chip (OPL2 or OPLL), the control actor calling write()    *)
(*              and the render actor draining the task queue and ticking;   *)
(*   SpecAudio  OPLL construction with an audio divider and get_samples();  *)
(*   SpecEnvWrites, SpecWave   SpecEnv with register writes between the     *)
(*              updates, and with a moving phase;                           *)
(*   SpecRegs, SpecVoice, SpecPatch   SpecChip over every register, over    *)
(*              the OPLL's rendered levels, and under a scripted writer.    *)
(*   SpecAudible, SpecSetters   one Operator asked is_audible() between its *)
(*              updates, and configured by one call of any setter;          *)
(*   SpecAttack one Operator whose key is pressed and held through Attack;  *)
(*   SpecSplit, SpecVolume   an OPLL rendered in calls of several lengths,  *)
(*              and one whose volume range is set while it renders;         *)
(*   SpecVideo  a Video run for some half cycles and asked its access delay;*)
(*   SpecStorage, SpecInstall   a ProcessorStorage under construction, and  *)
(*              install called with any generator and operation;            *)
(*   SpecPerformers   a PerformerLookup constructed and asked.              *)
(***************************************************************************)
EXTENDS Integers, Sequences, FiniteSets, TLC

VARIABLES
    \* ---- SpecEnv: one operator
    oper,               \* Operator: the configuration decoded from register bytes
    overrides,          \* the OperatorOverrides its channel passes to update(), if any
    state,              \* OperatorState: the mutable runtime record
    env_in,             \* the arguments of the most recent update() call
    env_pre,            \* the OperatorState before the most recent update() call
    env_updated,        \* whether the most recent call on the operator was update()
    op_call,            \* the most recent setter or is_audible call: its byte, its result
    env_edge,           \* the attenuation the last key-on edge found; the ticks and steps in Attack since
    \* ---- SpecChip / SpecAudio: one chip
    chip,               \* the chip object: personality, registers, operators, channels
    task_queue_,        \* the deferred command queue, oldest command first
    render,             \* the render actor: its position and what it has left to do
    issued,             \* every audio-affecting register write, in the order write() issued it
    applied,            \* every queued command, in the order it was applied
    last_call,          \* the most recent call made on the chip and its arguments
    calls,              \* how many calls the control actor has made
    scope,              \* which part of the program the behaviour follows
    program,            \* the script of a scripted control actor: its write() calls, in order
    \* ---- SpecVideo, SpecStorage, SpecInstall, SpecPerformers: a peer component
    machine             \* the object the behaviour follows when it is not the synthesis core

envVars  == <<oper, overrides, state, env_in, env_pre, env_updated, op_call, env_edge>>
chipVars == <<chip, task_queue_, render, issued, applied, last_call, calls, scope, program>>
vars     == <<oper, overrides, state, env_in, env_pre, env_updated, op_call, env_edge,
              chip, task_queue_, render, issued, applied, last_call, calls, scope, program,
              machine>>

----------------------------------------------------------------------------
(* Integer helpers: C's shifts and bitwise and on the values the code uses. *)

RECURSIVE Pow2(_)
Pow2(n) == IF n <= 0 THEN 1 ELSE 2 * Pow2(n - 1)

\* x >> n (arithmetic: \div rounds toward minus infinity, as >> does on int)
Shr(x, n) == x \div Pow2(n)

\* x << n
Shl(x, n) == x * Pow2(n)

RECURSIVE BitAnd(_, _)
BitAnd(a, b) ==
    IF a = 0 \/ b = 0 THEN 0
    ELSE (IF a % 2 = 1 /\ b % 2 = 1 THEN 1 ELSE 0) + 2 * BitAnd(a \div 2, b \div 2)

Bit(value, mask) == BitAnd(value, mask) # 0

Min(a, b) == IF a < b THEN a ELSE b

----------------------------------------------------------------------------
(* Operator: the configuration setters, Operator.cpp 20-45.                 *)

\* The fields of a default-constructed Operator.
DefaultOperator ==
    [ attack_rate_ |-> 0, decay_rate_ |-> 0, sustain_level_ |-> 0, release_rate_ |-> 0,
      level_key_scaling_ |-> 0, attenuation_ |-> 0, waveform_ |-> 0,
      apply_amplitude_modulation_ |-> FALSE, apply_vibrato_ |-> FALSE,
      use_sustain_level_ |-> FALSE, key_scaling_rate_ |-> FALSE,
      frequency_multiple_ |-> 0 ]

set_attack_decay(op, value) ==
    [op EXCEPT !.attack_rate_ = Shr(BitAnd(value, 240), 2),
               !.decay_rate_  = Shl(BitAnd(value, 15), 2)]

set_sustain_release(op, value) ==
    [op EXCEPT !.sustain_level_ = Shr(BitAnd(value, 240), 4),
               !.release_rate_  = Shl(BitAnd(value, 15), 2)]

set_scaling_output_Unmasked(op, value) ==
    [op EXCEPT !.level_key_scaling_ = Shr(value, 6),
               !.attenuation_       = value]

set_scaling_output(op, value) ==
    [op EXCEPT !.level_key_scaling_ = Shr(value, 6),
               !.attenuation_       = BitAnd(value, 63)]

set_waveform(op, value) ==
    [op EXCEPT !.waveform_ = BitAnd(value, 3)]

set_am_vibrato_hold_sustain_ksr_multiple(op, value) ==
    [op EXCEPT !.apply_amplitude_modulation_ = Bit(value, 128),
               !.apply_vibrato_              = Bit(value, 64),
               !.use_sustain_level_          = Bit(value, 32),
               !.key_scaling_rate_           = Bit(value, 16),
               !.frequency_multiple_         = BitAnd(value, 15)]

----------------------------------------------------------------------------
(* Operator::update, Operator.cpp 58-188: the envelope generator.           *)

\* A value in the logarithmic-sine domain: a magnitude and a sign.
LogSign(logsin, sign) == [ logsin |-> logsin, sign |-> sign ]

\* OperatorState after construction: a silent voice in Release.
InitialOperatorState ==
    [ raw_phase_ |-> 0, attenuation |-> LogSign(0, 1),
      adsr_phase_ |-> "Release", adsr_attenuation_ |-> 511,
      time_in_phase_ |-> 0, last_key_on_ |-> FALSE ]

\* The table provider (Tables.h). log_sin[i] is -log2(sin((i + 0.5) * pi / 512)) in
\* 1/256ths, the quarter wave of the chip's sine ROM; mapped_exp[i] is
\* 2^(12 - i/256), rounded as the chip's exponent ROM rounds it.
log_sin ==
    <<
       2137, 1731, 1543, 1419, 1326, 1252, 1190, 1137, 1091, 1050, 1013,  979,  949,  920,  894,  869,
        846,  825,  804,  785,  767,  749,  732,  717,  701,  687,  672,  659,  646,  633,  621,  609,
        598,  587,  576,  566,  556,  546,  536,  527,  518,  509,  501,  492,  484,  476,  468,  461,
        453,  446,  439,  432,  425,  418,  411,  405,  399,  392,  386,  380,  375,  369,  363,  358,
        352,  347,  341,  336,  331,  326,  321,  316,  311,  307,  302,  297,  293,  289,  284,  280,
        276,  271,  267,  263,  259,  255,  251,  248,  244,  240,  236,  233,  229,  226,  222,  219,
        215,  212,  209,  205,  202,  199,  196,  193,  190,  187,  184,  181,  178,  175,  172,  169,
        167,  164,  161,  159,  156,  153,  151,  148,  146,  143,  141,  138,  136,  134,  131,  129,
        127,  125,  122,  120,  118,  116,  114,  112,  110,  108,  106,  104,  102,  100,   98,   96,
         94,   92,   91,   89,   87,   85,   83,   82,   80,   78,   77,   75,   74,   72,   70,   69,
         67,   66,   64,   63,   62,   60,   59,   57,   56,   55,   53,   52,   51,   49,   48,   47,
         46,   45,   43,   42,   41,   40,   39,   38,   37,   36,   35,   34,   33,   32,   31,   30,
         29,   28,   27,   26,   25,   24,   23,   23,   22,   21,   20,   20,   19,   18,   17,   17,
         16,   15,   15,   14,   13,   13,   12,   12,   11,   10,   10,    9,    9,    8,    8,    7,
          7,    7,    6,    6,    5,    5,    5,    4,    4,    4,    3,    3,    3,    2,    2,    2,
          2,    1,    1,    1,    1,    1,    1,    1,    0,    0,    0,    0,    0,    0,    0,    0 >>

mapped_exp ==
    <<
       4084, 4074, 4062, 4052, 4040, 4030, 4020, 4008, 3998, 3986, 3976, 3966, 3954, 3944, 3932, 3922,
       3912, 3902, 3890, 3880, 3870, 3860, 3848, 3838, 3828, 3818, 3808, 3796, 3786, 3776, 3766, 3756,
       3746, 3736, 3726, 3716, 3706, 3696, 3686, 3676, 3666, 3656, 3646, 3636, 3626, 3616, 3606, 3596,
       3588, 3578, 3568, 3558, 3548, 3538, 3530, 3520, 3510, 3500, 3492, 3482, 3472, 3464, 3454, 3444,
       3434, 3426, 3416, 3408, 3398, 3388, 3380, 3370, 3362, 3352, 3344, 3334, 3326, 3316, 3308, 3298,
       3290, 3280, 3272, 3262, 3254, 3246, 3236, 3228, 3218, 3210, 3202, 3192, 3184, 3176, 3168, 3158,
       3150, 3142, 3132, 3124, 3116, 3108, 3100, 3090, 3082, 3074, 3066, 3058, 3050, 3040, 3032, 3024,
       3016, 3008, 3000, 2992, 2984, 2976, 2968, 2960, 2952, 2944, 2936, 2928, 2920, 2912, 2904, 2896,
       2888, 2880, 2872, 2866, 2858, 2850, 2842, 2834, 2826, 2818, 2812, 2804, 2796, 2788, 2782, 2774,
       2766, 2758, 2752, 2744, 2736, 2728, 2722, 2714, 2706, 2700, 2692, 2684, 2678, 2670, 2664, 2656,
       2648, 2642, 2634, 2628, 2620, 2614, 2606, 2600, 2592, 2584, 2578, 2572, 2564, 2558, 2550, 2544,
       2536, 2530, 2522, 2516, 2510, 2502, 2496, 2488, 2482, 2476, 2468, 2462, 2456, 2448, 2442, 2436,
       2428, 2422, 2416, 2410, 2402, 2396, 2390, 2384, 2376, 2370, 2364, 2358, 2352, 2344, 2338, 2332,
       2326, 2320, 2314, 2308, 2300, 2294, 2288, 2282, 2276, 2270, 2264, 2258, 2252, 2246, 2240, 2234,
       2228, 2222, 2216, 2210, 2204, 2198, 2192, 2186, 2180, 2174, 2168, 2162, 2156, 2150, 2144, 2138,
       2132, 2128, 2122, 2116, 2110, 2104, 2098, 2092, 2088, 2082, 2076, 2070, 2064, 2060, 2054, 2048 >>

\* The log-sine of a phase in 0..1023: the quarter wave mirrored by bit 8, with
\* the sign of the half wave, bit 9.
negative_log_sin(x) ==
    LET index == IF Bit(x, 256) THEN 255 - (x % 256) ELSE x % 256
    IN  LogSign(log_sin[index + 1], IF Bit(x, 512) THEN -1 ELSE 1)

\* The linear value of a log-sine value: the table's value halved once for
\* every 256 of attenuation; no table value has more than 12 bits, so 12 or more
\* halvings leave 0.
power_two(ls) ==
    Shr(mapped_exp[(ls.logsin % 256) + 1], Min(Shr(ls.logsin, 8), 12)) * ls.sign

\* OperatorState::level, lines 16-18.
level(st) == power_two(st.attenuation)

\* Lines 67-69: the MUL -> multiple table, multiplied by two.
multipliers == << 1, 2, 4, 6, 8, 10, 12, 14, 16, 18, 20, 20, 24, 24, 30, 30 >>

\* Line 72: the raw phase after this tick.
AdvancePhase(op, raw_phase, channel_period, channel_octave) ==
    raw_phase + Shl(multipliers[op.frequency_multiple_ + 1] * channel_period, channel_octave)

\* Lines 75-80: the mask each waveform applies in each quadrant of the wave.
waveforms_AbsSineUnfolded ==
    << << 1023, 1023, 1023, 1023 >>,
       <<  511,  511,    0,    0 >>,
       <<  511,  511, 1023, 1023 >>,
       <<  255,    0,  255,    0 >> >>

waveforms ==
    << << 1023, 1023, 1023, 1023 >>,
       <<  511,  511,    0,    0 >>,
       <<  511,  511,  511,  511 >>,
       <<  255,    0,  255,    0 >> >>

\* Line 81: the phase, from the raw phase and the channel's phase offset.
Phase(raw_phase, phase_offset) == Shr(raw_phase, 12) + phase_offset

\* Line 82: the phase handed to negative_log_sin. On two's complement ints,
\* phase & mask with 0 <= mask <= 1023 is the and of mask and phase mod 1024, and
\* (phase >> 8) & 3 is the quadrant of phase mod 1024.
LookupPhase(waveform, phase) ==
    BitAnd(phase % 1024, waveforms[waveform + 1][(Shr(phase, 8) % 4) + 1])

\* Lines 178-187: what the envelope and the channel or static attenuation add to
\* the log-sine magnitude.
OutputAttenuation_OverrideScaledAsStatic(op, adsr_attenuation, ovr) ==
    IF ovr.present
    THEN adsr_attenuation + Shl(ovr.attenuation, 5)
    ELSE Shl(adsr_attenuation, 3) + Shl(op.attenuation_, 5)

OutputAttenuation(op, adsr_attenuation, ovr) ==
    IF ovr.present
    THEN adsr_attenuation + Shl(ovr.attenuation, 4)
    ELSE Shl(adsr_attenuation, 3) + Shl(op.attenuation_, 5)

\* The overrides argument: a null pointer, or a channel's OperatorOverrides.
NoOverrides == [ present |-> FALSE, attenuation |-> 0, use_sustain_level |-> FALSE ]
Overrides(a, s) == [ present |-> TRUE, attenuation |-> a, use_sustain_level |-> s ]

\* Lines 86-92: key-on logic. Off: Release. Leading edge: Attack. Both reset the counter.
KeyOnPhase_HoldsSustain(phase, key_on, last_key_on) ==
    IF ~key_on THEN (IF phase = "Sustain" THEN "Sustain" ELSE "Release")
    ELSE IF ~last_key_on THEN "Attack"
    ELSE phase

KeyOnPhase_RetriggersWhileHeld(phase, key_on, last_key_on) ==
    IF ~key_on THEN "Release"
    ELSE IF ~last_key_on \/ phase = "Release" THEN "Attack"
    ELSE phase

KeyOnPhase(phase, key_on, last_key_on) ==
    IF ~key_on THEN "Release"
    ELSE IF ~last_key_on THEN "Attack"
    ELSE phase

KeyOnTime_KeepsOnEdge(time, key_on, last_key_on) ==
    IF ~key_on THEN 0
    ELSE time

KeyOnTime(time, key_on, last_key_on) ==
    IF ~key_on THEN 0
    ELSE IF ~last_key_on THEN 0
    ELSE time

\* Lines 112-119: the attenuation an Attack tick leaves, before the exit test.
AttackAttenuation_NoDecrement(att, time, attack_rate) ==
    IF attack_rate >= 56
    THEN att - Shr(att, 2)
    ELSE LET sample_length == Shl(1, 14 - Shr(attack_rate, 2))
         IN  IF BitAnd(time, sample_length - 1) = 0
             THEN att - Shr(att, 3)
             ELSE att

AttackAttenuation(att, time, attack_rate) ==
    IF attack_rate >= 56
    THEN att - Shr(att, 2) - 1
    ELSE LET sample_length == Shl(1, 14 - Shr(attack_rate, 2))
         IN  IF BitAnd(time, sample_length - 1) = 0
             THEN att - Shr(att, 3) - 1
             ELSE att

\* Lines 143-155: the attenuation a Decay or Release tick leaves, before the clamp.
\* 1 << ((decrease_rate >> 2) - 4) has a negative shift count for rate 3 (12 >> 2):
\* the result is undefined, so whether that tick steps is the choice `ub`.
DecreaseAttenuation(att, time, decrease_rate, ub) ==
    IF decrease_rate = 0 THEN att
    ELSE CASE Shr(decrease_rate, 2) = 1 -> att + 4
           [] Shr(decrease_rate, 2) = 2 -> att + 2
           [] OTHER ->
                LET shift == Shr(decrease_rate, 2) - 4
                IN  IF shift < 0
                    THEN (IF ub THEN att + 1 ELSE att)
                    ELSE IF BitAnd(time, Shl(1, shift) - 1) = 0
                         THEN att + 1
                         ELSE att

\* Line 158: clamp to the proper range.
ClampAttenuation_Unclamped(att) == att

ClampAttenuation(att) == Min(att, 511)

\* Line 163: whether the voice holds at its sustain level.
HoldsSustain_OwnFlagOnly(op, ovr) == op.use_sustain_level_

HoldsSustain(op, ovr) == (ovr.present /\ ovr.use_sustain_level) \/ op.use_sustain_level_

EnvelopeStep_AttackEndNotZeroed(op, phase, att, time, ovr, ub) ==
    CASE phase = "Attack" ->
            LET a == AttackAttenuation(att, time, op.attack_rate_)
            IN  IF op.attack_rate_ > 60 \/ a <= 0
                THEN [ adsr_phase_ |-> "Decay", adsr_attenuation_ |-> a ]
                ELSE [ adsr_phase_ |-> "Attack", adsr_attenuation_ |-> a ]
      [] phase \in {"Release", "Decay"} ->
            LET decrease_rate == IF phase = "Decay" THEN op.decay_rate_ ELSE op.release_rate_
                a == ClampAttenuation(DecreaseAttenuation(att, time, decrease_rate, ub))
            IN  IF phase = "Decay" /\ a >= Shl(op.sustain_level_, 5)
                THEN [ adsr_phase_ |-> IF HoldsSustain(op, ovr) THEN "Sustain" ELSE "Release",
                       adsr_attenuation_ |-> Shl(op.sustain_level_, 5) ]
                ELSE [ adsr_phase_ |-> phase, adsr_attenuation_ |-> a ]
      [] OTHER -> [ adsr_phase_ |-> phase, adsr_attenuation_ |-> att ]

\* Lines 101-170: the envelope step, from the phase and counter the key-on logic left.
EnvelopeStep(op, phase, att, time, ovr, ub) ==
    CASE phase = "Attack" ->
            LET a == AttackAttenuation(att, time, op.attack_rate_)
            IN  IF op.attack_rate_ > 60 \/ a <= 0
                THEN [ adsr_phase_ |-> "Decay", adsr_attenuation_ |-> 0 ]
                ELSE [ adsr_phase_ |-> "Attack", adsr_attenuation_ |-> a ]
      [] phase \in {"Release", "Decay"} ->
            LET decrease_rate == IF phase = "Decay" THEN op.decay_rate_ ELSE op.release_rate_
                a == ClampAttenuation(DecreaseAttenuation(att, time, decrease_rate, ub))
            IN  IF phase = "Decay" /\ a >= Shl(op.sustain_level_, 5)
                THEN [ adsr_phase_ |-> IF HoldsSustain(op, ovr) THEN "Sustain" ELSE "Release",
                       adsr_attenuation_ |-> Shl(op.sustain_level_, 5) ]
                ELSE [ adsr_phase_ |-> phase, adsr_attenuation_ |-> a ]
      [] OTHER -> [ adsr_phase_ |-> phase, adsr_attenuation_ |-> att ]

\* Lines 171-187: the OperatorState left, from the raw phase, the log-sine of the
\* phase, the phase and counter the key-on logic left and the envelope step's result.
FinishUpdate(op, raw_phase, wave, current_phase, time, env, key_on, ovr) ==
    [ raw_phase_        |-> raw_phase,
      attenuation       |-> LogSign(wave.logsin + OutputAttenuation(op, env.adsr_attenuation_, ovr),
                                    wave.sign),
      adsr_phase_       |-> env.adsr_phase_,
      adsr_attenuation_ |-> env.adsr_attenuation_,
      time_in_phase_    |-> IF env.adsr_phase_ = current_phase THEN time + 1 ELSE 0,
      last_key_on_      |-> key_on ]

\* Lines 101-170, from the state and key_on.
StepEnvelope(op, st, key_on, current_phase, time, ovr, ub) ==
    EnvelopeStep(op, current_phase, st.adsr_attenuation_, time, ovr, ub)

\* Lines 71-82, from the raw phase after this tick.
WaveOf(op, raw_phase, phase_offset) ==
    negative_log_sin(LookupPhase(op.waveform_, Phase(raw_phase, phase_offset)))

\* Lines 84-187, after the raw phase was advanced.
UpdateFrom(op, st, key_on, raw_phase, phase_offset, current_phase, time, ovr, ub) ==
    FinishUpdate(op, raw_phase, WaveOf(op, raw_phase, phase_offset), current_phase, time,
                 StepEnvelope(op, st, key_on, current_phase, time, ovr, ub), key_on, ovr)

\* Operator::update: the OperatorState it leaves.
Update(op, st, key_on, channel_period, channel_octave, phase_offset, ovr, ub) ==
    UpdateFrom(op, st, key_on,
               AdvancePhase(op, st.raw_phase_, channel_period, channel_octave), phase_offset,
               KeyOnPhase(st.adsr_phase_, key_on, st.last_key_on_),
               KeyOnTime(st.time_in_phase_, key_on, st.last_key_on_),
               ovr, ub)

is_audible_OwnAttenuationOnly(op, st, ovr) ==
    IF st.adsr_phase_ = "Release" /\ op.attenuation_ = 63
    THEN FALSE
    ELSE st.adsr_attenuation_ # 511

\* Operator::is_audible, lines 47-56.
is_audible(op, st, ovr) ==
    IF /\ st.adsr_phase_ = "Release"
       /\ IF ovr.present THEN ovr.attenuation = 15 ELSE op.attenuation_ = 63
    THEN FALSE
    ELSE st.adsr_attenuation_ # 511

\* Whether this update evaluates the undefined shift 1 << -1 (decay or release rate 3).
UndefinedShift(op, st, key_on) ==
    LET phase == KeyOnPhase(st.adsr_phase_, key_on, st.last_key_on_)
    IN  \/ phase = "Decay" /\ op.decay_rate_ = 12
        \/ phase = "Release" /\ op.release_rate_ = 12

----------------------------------------------------------------------------
(* Channel: the per-channel frequency, octave and key-on decoders that the  *)
(* chips call (OPL2.cpp 163, 168, 375-377).                                 *)

DefaultChannel ==
    [ period_ |-> 0, octave_ |-> 0, key_on_ |-> FALSE, frequency_shift_ |-> 0,
      feedback_strength_ |-> 0, use_fm_synthesis_ |-> FALSE,
      modulator |-> 0,
      overrides |-> [ attenuation |-> 0, use_sustain_level |-> FALSE ] ]

\* The low 8 bits of the frequency.
set_frequency_low(ch, value) ==
    [ch EXCEPT !.period_ = Shl(Shr(ch.period_, 8), 8) + value]

\* OPL2 0xb0..0xb8: 10-bit frequency (2 high bits), 3-bit octave, key-on.
set_10bit_frequency_octave_key_on(ch, value) ==
    [ch EXCEPT !.period_ = BitAnd(ch.period_, 255) + Shl(BitAnd(value, 3), 8),
               !.octave_ = BitAnd(Shr(value, 2), 7),
               !.key_on_ = Bit(value, 32),
               !.frequency_shift_ = 0]

\* OPLL 0x20..0x28: 9-bit frequency (1 high bit), 3-bit octave, key-on.
set_9bit_frequency_octave_key_on(ch, value) ==
    [ch EXCEPT !.period_ = BitAnd(ch.period_, 255) + Shl(BitAnd(value, 1), 8),
               !.octave_ = BitAnd(Shr(value, 1), 7),
               !.key_on_ = Bit(value, 16),
               !.frequency_shift_ = 1]

\* OPL2 0xc0..0xc8: feedback amount and synthesis mode.
set_feedback_mode(ch, value) ==
    [ch EXCEPT !.feedback_strength_ = BitAnd(Shr(value, 1), 7),
               !.use_fm_synthesis_ = Bit(value, 1)]

----------------------------------------------------------------------------
(* OPLL: construction and the instrument patches, OPL2.cpp 32-53, 177-197.  *)

\* The fixed instrument table: 8 bytes for each of instruments 1..15, one of two
\* tables by the VRC7 flag, and 8 bytes for each of the 3 rhythm patches.
patch_set(is_vrc7, number, k) ==
    (number * 16 + k * 37 + (IF is_vrc7 THEN 5 ELSE 0)) % 256

percussion_patch_set(c, k) ==
    (c * 80 + k * 41 + 7) % 256

setup_fixed_instrument_NextPair(ops, number, data) ==
    LET m == (number * 2 + 2) % 38
        c == (number * 2 + 3) % 38
        modulator ==
            set_sustain_release(
              set_attack_decay(
                set_waveform(
                  set_scaling_output(
                    set_am_vibrato_hold_sustain_ksr_multiple(ops[m], data[0]),
                    data[2]),
                  BitAnd(Shr(data[3], 3), 1)),
                data[4]),
              data[6])
        carrier ==
            set_sustain_release(
              set_attack_decay(
                set_waveform(
                  set_am_vibrato_hold_sustain_ksr_multiple(ops[c], data[1]),
                  BitAnd(Shr(data[3], 4), 1)),
                data[5]),
              data[7])
    IN  [ops EXCEPT ![m] = modulator, ![c] = carrier]

\* setup_fixed_instrument(number, data): data is the instrument's 8 bytes, 0..7.
setup_fixed_instrument(ops, number, data) ==
    LET m == number * 2
        c == number * 2 + 1
        modulator ==
            set_sustain_release(
              set_attack_decay(
                set_waveform(
                  set_scaling_output(
                    set_am_vibrato_hold_sustain_ksr_multiple(ops[m], data[0]),
                    data[2]),
                  BitAnd(Shr(data[3], 3), 1)),
                data[4]),
              data[6])
        carrier ==
            set_sustain_release(
              set_attack_decay(
                set_waveform(
                  set_am_vibrato_hold_sustain_ksr_multiple(ops[c], data[1]),
                  BitAnd(Shr(data[3], 4), 1)),
                data[5]),
              data[7])
    IN  [ops EXCEPT ![m] = modulator, ![c] = carrier]

RECURSIVE InstallFixedInstruments_RowBefore(_, _, _)
InstallFixedInstruments_RowBefore(ops, is_vrc7, c) ==
    IF c >= 15 THEN ops
    ELSE InstallFixedInstruments_RowBefore(
             setup_fixed_instrument(ops, c + 1, [k \in 0..7 |-> patch_set(is_vrc7, c, k)]),
             is_vrc7, c + 1)

RECURSIVE InstallFixedInstruments(_, _, _)
InstallFixedInstruments(ops, is_vrc7, c) ==
    IF c >= 15 THEN ops
    ELSE InstallFixedInstruments(
             setup_fixed_instrument(ops, c + 1, [k \in 0..7 |-> patch_set(is_vrc7, c + 1, k)]),
             is_vrc7, c + 1)

RECURSIVE InstallRhythmPatches(_, _)
InstallRhythmPatches(ops, c) ==
    IF c >= 3 THEN ops
    ELSE InstallRhythmPatches(
             setup_fixed_instrument(ops, c + 16, [k \in 0..7 |-> percussion_patch_set(c, k)]),
             c + 1)

\* Line 35: assert(audio_divider <= 4).
AudioDividerAccepted_AtMostEight(audio_divider) == audio_divider <= 8

AudioDividerAccepted(audio_divider) == audio_divider <= 4

\* A chip whose constructor aborted: there is no object to call.
AbortedChip(audio_divider) ==
    [ personality |-> "aborted", audio_divider_ |-> audio_divider ]

\* The two OperatorStates a channel keeps, for its modulator and its carrier.
InitialChannelState ==
    [ modulator |-> InitialOperatorState, carrier |-> InitialOperatorState ]

\* OPLL::OPLL. depth_rhythm_control_, csm_keyboard_split_, waveform_enable_,
\* total_volume_ and custom_instrument_ have no initialiser and are not assigned:
\* they hold whatever the object's storage held, `mode_garbage` and
\* `instrument_garbage`.
OPLLConstruct(audio_divider, is_vrc7, mode_garbage, instrument_garbage) ==
    IF ~AudioDividerAccepted(audio_divider) THEN AbortedChip(audio_divider)
    ELSE
    [ personality |-> "OPLL",
      selected_register_ |-> 0,
      depth_rhythm_control_ |-> mode_garbage,
      csm_keyboard_split_ |-> mode_garbage,
      waveform_enable_ |-> (mode_garbage # 0),
      operators_ |-> InstallRhythmPatches(
                        InstallFixedInstruments([i \in 0..37 |-> DefaultOperator], is_vrc7, 0), 0),
      channels_ |-> [c \in 0..8 |-> [DefaultChannel EXCEPT !.modulator = 0]],
      rhythm_overrides_ |-> [i \in 0..5 |-> [ attenuation |-> 0, use_sustain_level |-> FALSE ]],
      custom_instrument_ |-> [k \in 0..7 |-> instrument_garbage],
      timers_ |-> <<0, 0>>,
      timer_control_ |-> 0,
      audio_divider_ |-> audio_divider,
      audio_offset_ |-> 0,
      states_ |-> [c \in 0..8 |-> InitialChannelState],
      output_levels_ |-> [s \in 0..17 |-> 0],
      total_volume_ |-> mode_garbage ]

\* OPL2::OPL2. The mode fields of OPLBase are not initialised here either.
OPL2Construct(mode_garbage) ==
    [ personality |-> "OPL2",
      selected_register_ |-> 0,
      depth_rhythm_control_ |-> mode_garbage,
      csm_keyboard_split_ |-> mode_garbage,
      waveform_enable_ |-> (mode_garbage # 0),
      operators_ |-> [i \in 0..17 |-> DefaultOperator],
      channels_ |-> [c \in 0..8 |-> DefaultChannel],
      rhythm_overrides_ |-> [i \in 0..5 |-> [ attenuation |-> 0, use_sustain_level |-> FALSE ]],
      custom_instrument_ |-> [k \in 0..7 |-> 0],
      timers_ |-> <<0, 0>>,
      timer_control_ |-> 0,
      audio_divider_ |-> 1,
      audio_offset_ |-> 0,
      states_ |-> [c \in 0..8 |-> InitialChannelState],
      output_levels_ |-> [s \in 0..17 |-> 0],
      total_volume_ |-> mode_garbage ]

\* OPLL::set_sample_volume_range, lines 116-118.
set_sample_volume_range(c, range) == [c EXCEPT !.total_volume_ = range]

----------------------------------------------------------------------------
(* The queued closures: what a register write does once applied.            *)

OPLLApply_InstrumentFromFiveBits(c, address, value) ==
    IF address < 8
    THEN LET custom == [c.custom_instrument_ EXCEPT ![address] = value]
         IN  [c EXCEPT !.custom_instrument_ = custom,
                       !.operators_ = setup_fixed_instrument(c.operators_, 0, custom)]
    ELSE IF address = 14
    THEN [c EXCEPT !.depth_rhythm_control_ = BitAnd(value, 63)]
    ELSE LET index == BitAnd(address, 15)
         IN  IF index > 8 THEN c
             ELSE CASE BitAnd(address, 240) = 48 ->
                         LET ch == [c.channels_[index] EXCEPT
                                        !.overrides.attenuation = BitAnd(value, 15),
                                        !.modulator = Shr(value, 3) * 2]
                             ro == IF index >= 6
                                   THEN [c.rhythm_overrides_ EXCEPT
                                            ![(index - 6) * 2 + 0].attenuation = Shr(value, 4),
                                            ![(index - 6) * 2 + 1].attenuation = BitAnd(value, 15)]
                                   ELSE c.rhythm_overrides_
                         IN  [c EXCEPT !.channels_[index] = ch, !.rhythm_overrides_ = ro]
                    [] BitAnd(address, 240) = 16 ->
                         [c EXCEPT !.channels_[index] = set_frequency_low(c.channels_[index], value)]
                    [] BitAnd(address, 240) = 32 ->
                         [c EXCEPT !.channels_[index] =
                             [set_9bit_frequency_octave_key_on(c.channels_[index], value)
                                 EXCEPT !.overrides.use_sustain_level = Bit(value, 32)]]
                    [] OTHER -> c

\* OPLL::write_register's closure, OPL2.cpp 129-173.
OPLLApply(c, address, value) ==
    IF address < 8
    THEN LET custom == [c.custom_instrument_ EXCEPT ![address] = value]
         IN  [c EXCEPT !.custom_instrument_ = custom,
                       !.operators_ = setup_fixed_instrument(c.operators_, 0, custom)]
    ELSE IF address = 14
    THEN [c EXCEPT !.depth_rhythm_control_ = BitAnd(value, 63)]
    ELSE LET index == BitAnd(address, 15)
         IN  IF index > 8 THEN c
             ELSE CASE BitAnd(address, 240) = 48 ->
                         LET ch == [c.channels_[index] EXCEPT
                                        !.overrides.attenuation = BitAnd(value, 15),
                                        !.modulator = Shr(value, 4) * 2]
                             ro == IF index >= 6
                                   THEN [c.rhythm_overrides_ EXCEPT
                                            ![(index - 6) * 2 + 0].attenuation = Shr(value, 4),
                                            ![(index - 6) * 2 + 1].attenuation = BitAnd(value, 15)]
                                   ELSE c.rhythm_overrides_
                         IN  [c EXCEPT !.channels_[index] = ch, !.rhythm_overrides_ = ro]
                    [] BitAnd(address, 240) = 16 ->
                         [c EXCEPT !.channels_[index] = set_frequency_low(c.channels_[index], value)]
                    [] BitAnd(address, 240) = 32 ->
                         [c EXCEPT !.channels_[index] =
                             [set_9bit_frequency_octave_key_on(c.channels_[index], value)
                                 EXCEPT !.overrides.use_sustain_level = Bit(value, 32)]]
                    [] OTHER -> c

\* Lines 345-350: the operator an address within a 32-byte register group names.
operator_by_address_Dense ==
    << 0,  1,  2,  3,  4,  5,  6,  7,
       8,  9, 10, 11, 12, 13, 14, 15,
      16, 17, -1, -1, -1, -1, -1, -1,
      -1, -1, -1, -1, -1, -1, -1, -1 >>

operator_by_address ==
    << 0,  1,  2,  3,  4,  5, -1, -1,
       6,  7,  8,  9, 10, 11, -1, -1,
      12, 13, 14, 15, 16, 17, -1, -1,
      -1, -1, -1, -1, -1, -1, -1, -1 >>

\* Lines 324-335: modal modifications.
OPL2ApplyModal(c, address, value) ==
    CASE address = 1   -> [c EXCEPT !.waveform_enable_ = Bit(value, 32)]
      [] address = 8   -> [c EXCEPT !.csm_keyboard_split_ = value]
      [] address = 189 -> [c EXCEPT !.depth_rhythm_control_ = value]
      [] OTHER -> c

OPL2ApplyOperator_GroupsSwapped(op, address, value) ==
    CASE BitAnd(address, 224) = 32  -> set_am_vibrato_hold_sustain_ksr_multiple(op, value)
      [] BitAnd(address, 224) = 64  -> set_attack_decay(op, value)
      [] BitAnd(address, 224) = 96  -> set_scaling_output(op, value)
      [] BitAnd(address, 224) = 128 -> set_sustain_release(op, value)
      [] BitAnd(address, 224) = 224 -> set_waveform(op, value)
      [] OTHER -> op

\* Lines 355-363: the setter an operator register group selects.
OPL2ApplyOperator(op, address, value) ==
    CASE BitAnd(address, 224) = 32  -> set_am_vibrato_hold_sustain_ksr_multiple(op, value)
      [] BitAnd(address, 224) = 64  -> set_scaling_output(op, value)
      [] BitAnd(address, 224) = 96  -> set_attack_decay(op, value)
      [] BitAnd(address, 224) = 128 -> set_sustain_release(op, value)
      [] BitAnd(address, 224) = 224 -> set_waveform(op, value)
      [] OTHER -> op

\* Lines 371-380: channel modifications.
OPL2ApplyChannel(c, address, value) ==
    LET index == BitAnd(address, 15)
    IN  IF index > 8 THEN c
        ELSE CASE BitAnd(address, 240) = 160 ->
                    [c EXCEPT !.channels_[index] = set_frequency_low(c.channels_[index], value)]
               [] BitAnd(address, 240) = 176 ->
                    [c EXCEPT !.channels_[index] =
                        set_10bit_frequency_octave_key_on(c.channels_[index], value)]
               [] BitAnd(address, 240) = 192 ->
                    [c EXCEPT !.channels_[index] = set_feedback_mode(c.channels_[index], value)]
               [] OTHER -> c

\* OPL2::write_register's closure, OPL2.cpp 319-381.
OPL2Apply(c, address, value) ==
    LET modal == OPL2ApplyModal(c, address, value)
    IN  IF (address >= 32 /\ address < 160) \/ address >= 224
        THEN LET index == operator_by_address[BitAnd(address, 31) + 1]
             IN  IF index = -1 THEN modal
                 ELSE OPL2ApplyChannel(
                          [modal EXCEPT !.operators_[index] =
                              OPL2ApplyOperator(modal.operators_[index], address, value)],
                          address, value)
        ELSE OPL2ApplyChannel(modal, address, value)

ApplyCommand_LatchedAtDrain(c, cmd) ==
    IF c.personality = "OPLL"
    THEN OPLLApply(c, c.selected_register_, cmd.value)
    ELSE OPL2Apply(c, c.selected_register_, cmd.value)

\* The deferred closure, run: it captured address and value when it was queued.
ApplyCommand(c, cmd) ==
    IF c.personality = "OPLL"
    THEN OPLLApply(c, cmd.address, cmd.value)
    ELSE OPL2Apply(c, cmd.address, cmd.value)

----------------------------------------------------------------------------
(* The control actor: OPLBase::write and the chips' write_register.         *)

Command(address, value) == [ address |-> address, value |-> value ]

\* Lines 305-316: timer changes are dealt with synchronously.
OPL2IsTimerRegister_OnlyTimers(address) == address \in {2, 3}

OPL2IsTimerRegister(address) == address \in {2, 3, 4}

\* OPL2::write_register, lines 303-319: the chip and the queue it leaves.
OPL2WriteRegister_AppliesNow(c, queue, address, value) ==
    IF OPL2IsTimerRegister(address)
    THEN [ chip |-> CASE address = 2 -> [c EXCEPT !.timers_[1] = value]
                      [] address = 3 -> [c EXCEPT !.timers_[2] = value]
                      [] OTHER       -> [c EXCEPT !.timer_control_ = value],
           queue |-> queue ]
    ELSE [ chip |-> OPL2Apply(c, address, value), queue |-> queue ]

OPL2WriteRegister(c, queue, address, value) ==
    IF OPL2IsTimerRegister(address)
    THEN [ chip |-> CASE address = 2 -> [c EXCEPT !.timers_[1] = value]
                      [] address = 3 -> [c EXCEPT !.timers_[2] = value]
                      [] OTHER       -> [c EXCEPT !.timer_control_ = value],
           queue |-> queue ]
    ELSE [ chip |-> c, queue |-> Append(queue, Command(address, value)) ]

\* OPLL::write_register, lines 125-128: all writes go to the audio queue.
OPLLWriteRegister_DropsUnknown(c, queue, address, value) ==
    [ chip |-> c,
      queue |-> IF address >= 64 THEN queue ELSE Append(queue, Command(address, value)) ]

OPLLWriteRegister(c, queue, address, value) ==
    [ chip |-> c, queue |-> Append(queue, Command(address, value)) ]

\* Line 21: address & 1 selects the data port.
IsDataPort_BitOne(address) == BitAnd(address, 2) # 0

IsDataPort(address) == BitAnd(address, 1) # 0

\* OPLBase::write, lines 19-26.
write(c, queue, address, value) ==
    IF IsDataPort(address)
    THEN IF c.personality = "OPLL"
         THEN OPLLWriteRegister(c, queue, c.selected_register_, value)
         ELSE OPL2WriteRegister(c, queue, c.selected_register_, value)
    ELSE [ chip |-> [c EXCEPT !.selected_register_ = value], queue |-> queue ]

----------------------------------------------------------------------------
(* The render actor: a render call drains the task queue, applying every    *)
(* command in submission order, and then get_samples produces the samples.  *)

\* C's integer division and remainder, truncating toward zero; b is not 0.
CDiv(a, b) ==
    LET abs(x) == IF x < 0 THEN -x ELSE x
        q == abs(a) \div abs(b)
    IN  IF (a < 0) = (b < 0) THEN q ELSE -q

CMod(a, b) == a - b * CDiv(a, b)

\* Lines 66-67.
update_period(c) == CDiv(72, c.audio_divider_)
channel_output_period(c) == CDiv(4, c.audio_divider_)

\* Whether get_samples divides by zero: 72 / audio_divider_, 4 / audio_divider_,
\* audio_offset_ / channel_output_period or (audio_offset_ + 1) % update_period.
DividesByZero(c) ==
    \/ c.audio_divider_ = 0
    \/ channel_output_period(c) = 0
    \/ update_period(c) = 0

\* Lines 69-75, one pass of the loop: the slot of output_levels_ that is read,
\* whether update_all_chanels ran first, and the audio_offset_ left.
GetSample(c) ==
    [ updated |-> (c.audio_offset_ = 0),
      slot    |-> CDiv(c.audio_offset_, channel_output_period(c)),
      offset  |-> CMod(c.audio_offset_ + 1, update_period(c)) ]

\* Channel::update as OPLL::Channel calls it (OPL2.hpp 96-98): the modulator is
\* updated without overrides, the carrier with the channel's, its phase offset by
\* the modulator's level. `plan` names the operators and key-on levels to use.
ChannelUpdate(ch, st, plan, ub) ==
    LET period == Shl(ch.period_, ch.frequency_shift_)
        m == Update(plan.mod_op, st.modulator, plan.mod_key, period, ch.octave_, 0,
                    NoOverrides, ub)
    IN  [ modulator |-> m,
          carrier   |-> Update(plan.car_op, st.carrier, plan.car_key, period, ch.octave_,
                               level(m),
                               Overrides(ch.overrides.attenuation, ch.overrides.use_sustain_level),
                               ub) ]

\* Line 222: whether the chip is in rhythm mode.
RhythmMode(c) == Bit(c.depth_rhythm_control_, 32)

\* Lines 202-205, 225-229, 247-250: the operators and key-on levels channel i is
\* updated with. Melodic: the channel's own pair and key-on. In rhythm mode
\* channel 6 uses operators 32 and 33, channel 7 operators 34 and 35, channel 8
\* operators 36 and 37, keyed by the bits of depth_rhythm_control_.
ChannelPlan(c, i) ==
    IF RhythmMode(c) /\ i >= 6
    THEN [ mod_op  |-> c.operators_[32 + 2 * (i - 6)],
           car_op  |-> c.operators_[33 + 2 * (i - 6)],
           mod_key |-> Bit(c.depth_rhythm_control_,
                           CASE i = 6 -> 16 [] i = 7 -> 1 [] OTHER -> 4),
           car_key |-> Bit(c.depth_rhythm_control_,
                           CASE i = 6 -> 16 [] i = 7 -> 8 [] OTHER -> 2) ]
    ELSE [ mod_op  |-> c.operators_[c.channels_[i].modulator],
           car_op  |-> c.operators_[c.channels_[i].modulator + 1],
           mod_key |-> c.channels_[i].key_on_,
           car_key |-> c.channels_[i].key_on_ ]

\* Whether updating channel i evaluates the undefined shift.
ChannelUndefinedShift(c, i) ==
    \/ UndefinedShift(ChannelPlan(c, i).mod_op, c.states_[i].modulator, ChannelPlan(c, i).mod_key)
    \/ UndefinedShift(ChannelPlan(c, i).car_op, c.states_[i].carrier, ChannelPlan(c, i).car_key)

VOLUME_ShiftsEleven(c, x) == Shr(x * c.total_volume_, 11)

\* Line 209: #define VOLUME(x) ((x) * total_volume_) >> 12
VOLUME(c, x) == Shr(x * c.total_volume_, 12)

\* The channel's voices: the two-operator combination, and the rhythm voices
\* drawn from the states of channels 7 and 8.
melodic_output(st) == level(st.carrier)
snare_output(states) == level(states[7].carrier)
tom_tom_output(states) == level(states[8].modulator)
cymbal_output(states) == level(states[7].modulator) + level(states[8].carrier)
high_hat_output(states) == level(states[7].modulator) + level(states[8].modulator)

\* Lines 235-241: the operators handed to the output functions of the snare, the
\* tom-tom and the cymbal, each with the channel and the role of the state that
\* the voice applies it to.
VoiceArguments(c) ==
    [ snare   |-> { [channel |-> 7, role |-> "carrier",   patch |-> c.operators_[35]] },
      tom_tom |-> { [channel |-> 8, role |-> "modulator", patch |-> c.operators_[37]] },
      cymbal  |-> { [channel |-> 7, role |-> "modulator", patch |-> c.operators_[36]],
                    [channel |-> 8, role |-> "carrier",   patch |-> c.operators_[35]] } ]

\* Lines 207-258: the 18 output levels, from the channel states just updated.
OutputLevels(c, states) ==
    [ s \in 0..17 |->
        CASE s \in {8, 12} -> 0
          [] s \in {3, 4, 5}   -> VOLUME(c, melodic_output(states[s - 3]))
          [] s \in {9, 10, 11} -> VOLUME(c, melodic_output(states[s - 6]))
          [] OTHER ->
               IF RhythmMode(c)
               THEN CASE s \in {2, 15} -> VOLUME(c, melodic_output(states[6]))
                      [] s \in {6, 16} -> VOLUME(c, snare_output(states))
                      [] s \in {1, 14} -> VOLUME(c, tom_tom_output(states))
                      [] s \in {7, 17} -> VOLUME(c, cymbal_output(states))
                      [] OTHER        -> VOLUME(c, high_hat_output(states))
               ELSE IF s \in {15, 16, 17}
                    THEN VOLUME(c, melodic_output(states[s - 9]))
                    ELSE 0 ]

\* The chip with the channel states of this update and the levels they give.
WithLevels(c, states) ==
    [c EXCEPT !.states_ = states, !.output_levels_ = OutputLevels(c, states)]

\* OPLL::update_all_chanels, lines 199-270.
update_all_chanels(c, ub) ==
    WithLevels(c, [ i \in 0..8 |->
                      ChannelUpdate(c.channels_[i], c.states_[i], ChannelPlan(c, i), ub) ])

\* Lines 70-72: the chip after `if(!audio_offset_) update_all_chanels()`.
BeforeSample(c, ub) == IF c.audio_offset_ = 0 THEN update_all_chanels(c, ub) ELSE c

\* The outcomes of the undefined shift that this pass of the loop may see.
ShiftOutcomes(c) ==
    IF c.audio_offset_ = 0 /\ (\E i \in 0..8 : ChannelUndefinedShift(c, i))
    THEN BOOLEAN ELSE { FALSE }

\* Line 72: the value read from output_levels_[slot]; outside the array the read
\* is undefined and yields whatever lies there.
SampleRead(c, slot) ==
    IF slot \in 0..17 THEN { c.output_levels_[slot] } ELSE { 0, 255 }

\* A control actor without a script.
NoProgram == [ instrument |-> 0, writes |-> << >> ]

\* Whether channels 0 and 1 are updated from the same inputs: the same period,
\* octave, key-on and overrides, channel 0 playing the custom instrument and
\* channel 1 either that too or, with all 8 custom registers written, the fixed
\* instrument whose bytes they were written with.
SameInputs(c, written) ==
    /\ c.channels_[0].modulator = 0
    /\ \/ c.channels_[1].modulator = 0
       \/ c.channels_[1].modulator = 2 * program.instrument /\ written >= 8
    /\ [c.channels_[0] EXCEPT !.modulator = 0] = [c.channels_[1] EXCEPT !.modulator = 0]

IdleRenderer ==
    [ pc |-> "idle", remaining |-> 0, issued_at_begin |-> 0, renders |-> 0,
      sampled |-> FALSE, slot |-> 0, updated |-> FALSE, sample |-> 0,
      rhythm_at_update |-> FALSE, paired |-> TRUE,
      stage |-> 0, ranges |-> {},
      total |-> 0, updates |-> 0, begun |-> 0, requested |-> 0 ]

ChipLive == chip.personality \in {"OPL2", "OPLL"}

----------------------------------------------------------------------------
(* SpecEnv: one operator, configured once through its setters and then      *)
(* advanced by update() with any key_on and overrides at every tick.        *)

\* The longest an operator is followed within one envelope phase.
MaxTime == 24

\* The operators followed: the bytes written to an operator's attack/decay (0x60),
\* sustain/release (0x80) and mode (0x20) registers, and the overrides its channel
\* passes to update(): none on the OPL2, the channel's own on the OPLL. They cover
\* the fast (14, 15) and divided (0, 12, 13) attack rates, every branch of the
\* decay/release switch (rate 0, 1, 2, the undefined shift of rate 3, rates 4, 5
\* and 15), sustain levels 0, 1 and 15, and sustain-hold by the operator's own
\* flag, by the override and not at all.
EnvConfigs ==
    { <<241,  17,  0, NoOverrides>>,
      <<242,  18, 32, NoOverrides>>,
      <<227,   3,  0, Overrides(15, TRUE)>>,
      <<228, 244,  0, Overrides(0, FALSE)>>,
      <<213,   5,  0, NoOverrides>>,
      <<  0,   0,  0, NoOverrides>>,
      <<207,  31, 32, Overrides(3, FALSE)>>,
      <<240,  16, 32, NoOverrides>>,
      <<241,   1,  0, Overrides(15, FALSE)>> }

IdleChip == [ personality |-> "none" ]
NoCall == [ op |-> "none", address |-> 0, value |-> 0, latched |-> 0 ]

\* The arguments of an update() call; before the first call, none.
UpdateCall(key_on, channel_period, channel_octave, phase_offset, ub) ==
    [ key_on |-> key_on, channel_period |-> channel_period,
      channel_octave |-> channel_octave, phase_offset |-> phase_offset, ub |-> ub ]

NoUpdate == UpdateCall(FALSE, 0, 0, 0, FALSE)

\* A setter or is_audible call on the operator; before the first, none.
OperatorCall(name, value, result) == [ name |-> name, value |-> value, result |-> result ]
NoOperatorCall == OperatorCall("none", 0, FALSE)

\* No key-on edge has been followed yet.
NoEdge == [ attenuation |-> 0, ticks |-> 0, steps |-> 0 ]

\* The behaviour follows the synthesis core: there is no other object.
NoMachine == [ kind |-> "none" ]

ChipUnused ==
    /\ chip = IdleChip
    /\ task_queue_ = << >>
    /\ render = IdleRenderer
    /\ issued = << >>
    /\ applied = << >>
    /\ last_call = NoCall
    /\ calls = 0
    /\ program = NoProgram

\* The operator a configuration's three register bytes leave.
ConfiguredOperator(c) ==
    set_am_vibrato_hold_sustain_ksr_multiple(
        set_sustain_release(set_attack_decay(DefaultOperator, c[1]), c[2]), c[3])

InitEnv ==
    /\ \E c \in EnvConfigs :
          /\ oper = ConfiguredOperator(c)
          /\ overrides = c[4]
    /\ state = InitialOperatorState
    /\ env_in = NoUpdate
    /\ env_pre = InitialOperatorState
    /\ env_updated = FALSE
    /\ op_call = NoOperatorCall
    /\ env_edge = NoEdge
    /\ ChipUnused
    /\ machine = NoMachine
    /\ scope = "envelope"

\* The channel's period, octave and phase offset that update() is called with:
\* SpecEnv follows the envelope of a voice at rest; SpecWave moves the phase, by
\* 1 or 2 a tick from offsets that put it at and around the quarter-wave
\* boundaries, before 0 and beyond 1023.
WavePeriods == { 256, 512 }
WaveOctaves == { 4 }
WaveOffsets == { -1, 255, 511, 767, 300, -257, 1279 }

ChannelPeriods == IF scope = "wave" THEN WavePeriods ELSE { 0 }
ChannelOctaves == IF scope = "wave" THEN WaveOctaves ELSE { 0 }
PhaseOffsets   == IF scope = "wave" THEN WaveOffsets ELSE { 0 }

\* The largest raw phase a voice is followed to.
MaxRawPhase == 16384

\* One call of Operator::update on the operator's state.
UpdateOperator ==
    \E key_on \in BOOLEAN, channel_period \in ChannelPeriods,
       channel_octave \in ChannelOctaves, phase_offset \in PhaseOffsets :
      \E ub \in (IF UndefinedShift(oper, state, key_on) THEN BOOLEAN ELSE {FALSE}) :
        /\ state' = Update(oper, state, key_on, channel_period, channel_octave,
                            phase_offset, overrides, ub)
        /\ state'.time_in_phase_ <= MaxTime
        /\ state'.raw_phase_ <= MaxRawPhase
        /\ env_in' = UpdateCall(key_on, channel_period, channel_octave, phase_offset, ub)
        /\ env_pre' = state
        /\ env_updated' = TRUE
        /\ UNCHANGED <<oper, overrides, op_call, env_edge>>
        /\ UNCHANGED <<chipVars, machine>>

NextEnv == UpdateOperator

SpecEnv == InitEnv /\ [][NextEnv]_vars

\* The bytes written to the sustain/release register while a voice sounds:
\* sustain level 1 with release rate 0, and sustain level 15 with release rate 4.
SustainReleaseWrites == { 16, 244 }

\* Between two updates a register write replaces the operator's sustain level and
\* release rate (OPL2 0x80..0x95; OPLL 0x06, 0x07).
Reconfigure ==
    /\ env_updated
    /\ \E value \in SustainReleaseWrites : oper' = set_sustain_release(oper, value)
    /\ oper' # oper
    /\ env_updated' = FALSE
    /\ UNCHANGED <<overrides, state, env_in, env_pre, op_call, env_edge>>
    /\ UNCHANGED <<chipVars, machine>>

NextEnvWrites == UpdateOperator \/ Reconfigure

SpecEnvWrites == InitEnv /\ [][NextEnvWrites]_vars

\* SpecWave: operators of each waveform, with a fast attack, no decay and a held
\* sustain; the static attenuation at its maximum without overrides, and a
\* channel's overrides.
WaveLevels ==
    { <<63, NoOverrides>>, <<127, Overrides(15, FALSE)>>, <<0, Overrides(3, TRUE)>> }

InitWave ==
    /\ \E waveform \in 0..3, l \in WaveLevels :
          /\ oper = set_waveform(
                        set_scaling_output(ConfiguredOperator(<<240, 0, 32>>), l[1]),
                        waveform)
          /\ overrides = l[2]
    /\ state = InitialOperatorState
    /\ env_in = NoUpdate
    /\ env_pre = InitialOperatorState
    /\ env_updated = FALSE
    /\ op_call = NoOperatorCall
    /\ env_edge = NoEdge
    /\ ChipUnused
    /\ machine = NoMachine
    /\ scope = "wave"

SpecWave == InitWave /\ [][NextEnv]_vars

\* SpecAudible: the operators of SpecEnv with the static attenuation at 0 or at
\* its maximum, asked whether they are audible between their updates.
AudibleLevels == { 0, 63 }

InitAudible ==
    /\ \E c \in EnvConfigs, a \in AudibleLevels :
          /\ oper = set_scaling_output(ConfiguredOperator(c), a)
          /\ overrides = c[4]
    /\ state = InitialOperatorState
    /\ env_in = NoUpdate
    /\ env_pre = InitialOperatorState
    /\ env_updated = FALSE
    /\ op_call = NoOperatorCall
    /\ env_edge = NoEdge
    /\ ChipUnused
    /\ machine = NoMachine
    /\ scope = "audible"

\* One call of Operator::is_audible with the operator's state.
QueryAudible ==
    /\ op_call' = OperatorCall("is_audible", 0, is_audible(oper, state, overrides))
    /\ env_updated' = FALSE
    /\ UNCHANGED <<oper, overrides, state, env_in, env_pre, env_edge>>
    /\ UNCHANGED <<chipVars, machine>>

NextAudible == UpdateOperator \/ QueryAudible

SpecAudible == InitAudible /\ [][NextAudible]_vars

\* SpecSetters: an operator with every field set, at rest or one update into a
\* note, on which one setter is called with any byte.
SetterNames ==
    { "set_attack_decay", "set_sustain_release", "set_scaling_output", "set_waveform",
      "set_am_vibrato_hold_sustain_ksr_multiple" }

Bytes == 0..255

\* The call of the setter `name` with `value`.
ApplySetter(name, op, value) ==
    CASE name = "set_attack_decay"    -> set_attack_decay(op, value)
      [] name = "set_sustain_release" -> set_sustain_release(op, value)
      [] name = "set_scaling_output"  -> set_scaling_output(op, value)
      [] name = "set_waveform"        -> set_waveform(op, value)
      [] OTHER -> set_am_vibrato_hold_sustain_ksr_multiple(op, value)

InitSetters ==
    /\ \E c \in EnvConfigs :
          /\ oper = set_waveform(set_scaling_output(ConfiguredOperator(c), 165), 2)
          /\ overrides = c[4]
    /\ \/ state = InitialOperatorState
       \/ state = Update(oper, InitialOperatorState, TRUE, 0, 0, 0, overrides, FALSE)
    /\ env_in = NoUpdate
    /\ env_pre = InitialOperatorState
    /\ env_updated = FALSE
    /\ op_call = NoOperatorCall
    /\ env_edge = NoEdge
    /\ ChipUnused
    /\ machine = NoMachine
    /\ scope = "setters"

\* One call of a setter, with any byte.
CallSetter ==
    /\ op_call = NoOperatorCall
    /\ \E name \in SetterNames, value \in Bytes :
         /\ oper' = ApplySetter(name, oper, value)
         /\ op_call' = OperatorCall(name, value, FALSE)
    /\ env_updated' = FALSE
    /\ UNCHANGED <<overrides, state, env_in, env_pre, env_edge>>
    /\ UNCHANGED <<chipVars, machine>>

NextSetters == CallSetter

SpecSetters == InitSetters /\ [][NextSetters]_vars

----------------------------------------------------------------------------
(* SpecAttack: one operator whose key is pressed and then held: update() is *)
(* called with key_on true at every tick, as the chip does for every sample *)
(* while the channel's key-on bit stays set, until the voice leaves Attack. *)

\* The most ticks a held key is followed for in Attack: the slowest case below,
\* attack-rate nibble 9 from attenuation 511, takes 34 * 2^5 + 1.
MaxAttackTicks == 1089

\* The attack-rate nibble and the envelope attenuation the key-on edge finds:
\* every nibble from attenuations 0 and 1 (one step), the nibbles of 4 and above
\* from attenuation 2 (two steps, a whole sample_length of up to 2^10 ticks
\* apart), and the nibbles of 9 and above from silence (511: 35 steps).
AttackCases ==
    { <<n, a>> : n \in 0..15, a \in {0, 1} }
        \cup { <<n, 2>> : n \in 4..15 }
        \cup { <<n, 511>> : n \in 9..15 }

\* The operator of a case: its attack/decay register written, all else as constructed.
AttackOperator(n) == set_attack_decay(DefaultOperator, n * 16)

\* The state a key-off update leaves in Release at attenuation a (release rate 0).
ReleasedAt(op, a) ==
    Update(op, [InitialOperatorState EXCEPT !.adsr_attenuation_ = a],
           FALSE, 0, 0, 0, NoOverrides, FALSE)

InitAttack ==
    /\ \E c \in AttackCases :
          /\ oper = AttackOperator(c[1])
          /\ state = ReleasedAt(AttackOperator(c[1]), c[2])
    /\ overrides = NoOverrides
    /\ env_in = NoUpdate
    /\ env_pre = InitialOperatorState
    /\ env_updated = FALSE
    /\ op_call = NoOperatorCall
    /\ env_edge = NoEdge
    /\ ChipUnused
    /\ machine = NoMachine
    /\ scope = "attack"

\* One update with the key down: the leading edge, or a tick of the Attack after it.
\* env_edge counts the updates that ran the Attack branch since the edge, and
\* those of them that changed the attenuation.
HoldKey ==
    /\ ~state.last_key_on_ \/ state.adsr_phase_ = "Attack"
    /\ env_edge.ticks < MaxAttackTicks
    /\ state' = Update(oper, state, TRUE, 0, 0, 0, overrides, FALSE)
    /\ env_edge' =
          LET stepped == IF state'.adsr_attenuation_ # state.adsr_attenuation_ THEN 1 ELSE 0
          IN  IF ~state.last_key_on_
              THEN [ attenuation |-> state.adsr_attenuation_, ticks |-> 1, steps |-> stepped ]
              ELSE [ env_edge EXCEPT !.ticks = @ + 1, !.steps = @ + stepped ]
    /\ env_in' = UpdateCall(TRUE, 0, 0, 0, FALSE)
    /\ env_pre' = state
    /\ env_updated' = TRUE
    /\ UNCHANGED <<oper, overrides, op_call>>
    /\ UNCHANGED <<chipVars, machine>>

NextAttack == HoldKey

\* The chip calls update() for every sample it renders: a held key is always served.
SpecAttack == InitAttack /\ [][NextAttack]_vars /\ WF_vars(HoldKey)

----------------------------------------------------------------------------
(* The chip's actions: write() by the control actor; the render call's      *)
(* steps by the render actor.                                               *)

\* SpecChip follows at most MaxWrites write() calls and MaxRenders render calls
\* of up to MaxSamples samples each.
MaxWrites == 3
MaxRenders == 2
MaxSamples == 1
VoiceMaxSamples == 2
PatchRenders == 2
PatchSamples == 18

\* What the storage of a member without initialiser may hold.
GarbageBytes == { 0, 255 }

\* The ports write() is called on: the low address bit selects latch or data.
WriteAddresses == { 0, 1 }

\* Register indices latched in SpecChip: OPL2 timer 1 (OPLL: a custom instrument
\* byte), an OPL2 operator register (OPLL: channel 0's key-on register), and the
\* OPL2 rhythm register (OPLL: unmapped).
ProtocolRegisters == { 2, 32, 189 }
ProtocolData == { 37, 255 }

\* Register indices and data bytes of SpecRegs: every register, three bytes.
AllRegisters == 0..255
DecodeData == { 0, 37, 255 }

\* Register indices and data bytes of SpecVoice: the OPLL's rhythm register,
\* channel 0's frequency register and its instrument and volume register; no
\* key-on register. 63 to the rhythm register turns rhythm mode on with every
\* drum keyed, 0 turns it off.
VoiceRegisters == { 14, 16, 48 }
VoiceData == { 0, 63 }

\* The bytes a write() call may carry, by port.
WriteValues(address) ==
    CASE scope = "decode" -> (IF address % 2 = 0 THEN AllRegisters ELSE DecodeData)
      [] scope = "voice"  -> (IF address % 2 = 0 THEN VoiceRegisters ELSE VoiceData)
      [] scope = "patch"  -> { program.writes[calls + 1].value }
      [] OTHER            -> (IF address % 2 = 0 THEN ProtocolRegisters ELSE ProtocolData)

\* SpecRegs follows one register write: a latch on the address port, if any, and
\* then one byte on the data port. SpecPatch follows the calls of its program.
\* SpecChip and SpecVoice follow any MaxWrites calls.
MayWrite(address) ==
    CASE scope = "decode" ->
           last_call.op = "none" \/ (last_call.address % 2 = 0 /\ address % 2 = 1 /\ calls = 1)
      [] scope = "patch" ->
           calls < Len(program.writes) /\ program.writes[calls + 1].address = address
      [] OTHER -> calls < MaxWrites

\* A write that the chip defers to the audio queue: all but the OPL2's timer registers.
AudioAffecting(c, register) == ~(c.personality = "OPL2" /\ register \in {2, 3, 4})

Write ==
    /\ ChipLive
    /\ \E address \in WriteAddresses :
         /\ MayWrite(address)
         /\ \E value \in WriteValues(address) :
              LET r == write(chip, task_queue_, address, value)
              IN  /\ chip' = r.chip
                  /\ task_queue_' = r.queue
                  /\ issued' = IF address % 2 = 1 /\ AudioAffecting(chip, chip.selected_register_)
                               THEN Append(issued, Command(chip.selected_register_, value))
                               ELSE issued
                  /\ last_call' = [ op |-> "write", address |-> address, value |-> value,
                                    latched |-> IF address % 2 = 0 THEN value
                                                ELSE last_call.latched ]
                  /\ calls' = calls + 1
    /\ UNCHANGED <<render, applied, scope, program>>
    /\ UNCHANGED <<envVars, machine>>

\* The render call starts: it will drain the queue, then produce n samples.
BeginRender(n) ==
    /\ ChipLive
    /\ render.pc = "idle"
    /\ render' = [render EXCEPT !.pc = "drain", !.remaining = n,
                                !.issued_at_begin = Len(issued),
                                !.renders = IF scope = "audio" THEN 0 ELSE @ + 1,
                                !.sampled = FALSE, !.updated = FALSE,
                                !.begun = IF scope = "split" THEN render.total ELSE @,
                                !.requested = IF scope = "split" THEN n ELSE @]
    /\ UNCHANGED <<chip, task_queue_, issued, applied, last_call, calls, scope, program>>
    /\ UNCHANGED <<envVars, machine>>

\* The sample counts a render call asks for.
SampleCounts ==
    CASE scope = "voice" -> 1..VoiceMaxSamples
      [] scope = "patch" -> { PatchSamples }
      [] OTHER -> 1..MaxSamples

RenderBegin ==
    /\ render.renders < (IF scope = "patch" THEN PatchRenders ELSE MaxRenders)
    /\ \E n \in SampleCounts : BeginRender(n)

\* The command the drain takes next: the oldest.
NextCommand_Newest(queue) == Len(queue)

NextCommand(queue) == 1

\* The queue without its i-th command.
Without(queue, i) == [ j \in 1..(Len(queue) - 1) |-> IF j < i THEN queue[j] ELSE queue[j + 1] ]

\* The drain applies one queued command.
Perform ==
    /\ render.pc = "drain"
    /\ task_queue_ # << >>
    /\ LET i == NextCommand(task_queue_)
       IN  /\ chip' = ApplyCommand(chip, task_queue_[i])
           /\ applied' = Append(applied, task_queue_[i])
           /\ task_queue_' = Without(task_queue_, i)
    /\ UNCHANGED <<render, issued, last_call, calls, scope, program>>
    /\ UNCHANGED <<envVars, machine>>

\* Whether the drain is over: the queue is empty.
Drained_Eager(queue) == TRUE

Drained(queue) == queue = << >>

\* The drain is over; get_samples starts.
DrainDone ==
    /\ render.pc = "drain"
    /\ Drained(task_queue_)
    /\ render' = [render EXCEPT !.pc = "tick"]
    /\ UNCHANGED <<chip, task_queue_, issued, applied, last_call, calls, scope, program>>
    /\ UNCHANGED <<envVars, machine>>

\* One pass of get_samples' loop. OPLL: lines 69-75; a division by zero is
\* undefined behaviour, after which the chip is followed no further. OPL2: its
\* get_samples produces the sample and keeps no position.
Tick ==
    /\ render.pc = "tick"
    /\ render.remaining > 0
    /\ IF chip.personality = "OPLL"
       THEN IF DividesByZero(chip)
            THEN /\ render' = [render EXCEPT !.pc = "undefined"]
                 /\ chip' = chip
            ELSE \E ub \in ShiftOutcomes(chip) :
                   /\ chip' = [BeforeSample(chip, ub) EXCEPT
                                   !.audio_offset_ = GetSample(chip).offset]
                   /\ \E sample \in SampleRead(chip', GetSample(chip).slot) :
                        render' = [render EXCEPT
                                      !.remaining = @ - 1, !.sampled = TRUE,
                                      !.slot = GetSample(chip).slot,
                                      !.updated = GetSample(chip).updated,
                                      !.sample = sample,
                                      !.total = IF scope = "split" THEN @ + 1 ELSE @,
                                      !.updates = IF scope = "split" /\ GetSample(chip).updated
                                                  THEN @ + 1 ELSE @,
                                      !.rhythm_at_update =
                                          IF GetSample(chip).updated THEN RhythmMode(chip) ELSE @,
                                      !.paired =
                                          IF GetSample(chip).updated
                                          THEN @ /\ SameInputs(chip, Len(applied)) ELSE @]
       ELSE /\ render' = [render EXCEPT !.remaining = @ - 1, !.sampled = TRUE]
            /\ chip' = chip
    /\ UNCHANGED <<task_queue_, issued, applied, last_call, calls, scope, program>>
    /\ UNCHANGED <<envVars, machine>>

\* get_samples returns.
RenderEnd ==
    /\ render.pc = "tick"
    /\ render.remaining = 0
    /\ render' = [render EXCEPT !.pc = "idle"]
    /\ UNCHANGED <<chip, task_queue_, issued, applied, last_call, calls, scope, program>>
    /\ UNCHANGED <<envVars, machine>>

EnvUnused ==
    /\ oper = DefaultOperator
    /\ overrides = NoOverrides
    /\ state = InitialOperatorState
    /\ env_in = NoUpdate
    /\ env_pre = InitialOperatorState
    /\ env_updated = FALSE
    /\ op_call = NoOperatorCall
    /\ env_edge = NoEdge

\* A chip after construction: an OPL2, or an OPLL with the default arguments,
\* in storage that held any of the bytes `garbage`.
InitConstructed(garbage) ==
    /\ \E g \in garbage, h \in garbage :
         \/ chip = OPL2Construct(g) /\ h = 0
         \/ chip = OPLLConstruct(1, FALSE, g, h)
    /\ task_queue_ = << >>
    /\ render = IdleRenderer
    /\ issued = << >>
    /\ applied = << >>
    /\ last_call = NoCall
    /\ calls = 0
    /\ program = NoProgram
    /\ EnvUnused
    /\ machine = NoMachine

InitChip == InitConstructed({0}) /\ scope = "protocol"

InitRegs == InitConstructed(GarbageBytes) /\ scope = "decode"

NextChip == Write \/ RenderBegin \/ Perform \/ DrainDone \/ Tick \/ RenderEnd

SpecChip == InitChip /\ [][NextChip]_vars

SpecRegs == InitRegs /\ [][NextChip]_vars

----------------------------------------------------------------------------
(* SpecVoice: an OPLL that puts out one slot a sample, its volume range set, *)
(* with writes to the rhythm register and to channel 0 between its renders.  *)

\* The volume range the owner of the chip sets before it renders.
VolumeRanges == { 4096 }

\* An OPLL constructed with audio divider 4 and given its volume range.
InitRanged(scope_name) ==
    /\ \E range \in VolumeRanges :
         chip = set_sample_volume_range(OPLLConstruct(4, FALSE, 0, 0), range)
    /\ task_queue_ = << >>
    /\ render = IdleRenderer
    /\ issued = << >>
    /\ applied = << >>
    /\ last_call = NoCall
    /\ calls = 0
    /\ scope = scope_name
    /\ EnvUnused
    /\ machine = NoMachine

InitVoice == InitRanged("voice") /\ program = NoProgram

SpecVoice == InitVoice /\ [][NextChip]_vars

----------------------------------------------------------------------------
(* SpecPatch: a control actor writes the 8 bytes of a fixed instrument to    *)
(* the custom registers and then sets channels 0 and 1 to the same note,     *)
(* channel 0 with the custom instrument and channel 1 with the fixed one,    *)
(* while the render actor renders whole update cycles at any point.          *)

\* The fixed instruments the script copies: the first and the last.
PatchInstruments == { 1, 15 }

\* A latch of `register` and then `value` on the data port.
RegisterWrite(register, value) ==
    << [address |-> 0, value |-> register], [address |-> 1, value |-> value] >>

RECURSIVE CustomWrites(_, _, _)
CustomWrites(is_vrc7, number, k) ==
    IF k > 7 THEN << >>
    ELSE RegisterWrite(k, patch_set(is_vrc7, number, k)) \o CustomWrites(is_vrc7, number, k + 1)

\* Volume 3 on both channels, period 0x80, octave 4, key on.
NoteWrites(number) ==
    RegisterWrite(48, 3) \o RegisterWrite(49, number * 16 + 3) \o
    RegisterWrite(16, 128) \o RegisterWrite(17, 128) \o
    RegisterWrite(32, 24) \o RegisterWrite(33, 24)

PatchProgram(is_vrc7, number) ==
    [ instrument |-> number,
      writes |-> CustomWrites(is_vrc7, number, 0) \o NoteWrites(number) ]

InitPatch ==
    /\ \E range \in VolumeRanges :
         chip = set_sample_volume_range(OPLLConstruct(4, FALSE, 0, 255), range)
    /\ \E number \in PatchInstruments : program = PatchProgram(FALSE, number)
    /\ task_queue_ = << >>
    /\ render = IdleRenderer
    /\ issued = << >>
    /\ applied = << >>
    /\ last_call = NoCall
    /\ calls = 0
    /\ scope = "patch"
    /\ EnvUnused
    /\ machine = NoMachine

SpecPatch == InitPatch /\ [][NextChip]_vars

----------------------------------------------------------------------------
(* SpecAudio: an OPLL constructed with any audio divider, then rendered.    *)

\* The audio dividers the constructor is called with, and the longest render call.
Dividers == { -1, 0, 1, 2, 3, 4, 5, 6 }
AudioMaxSamples == 3

InitAudio ==
    /\ \E d \in Dividers : chip = OPLLConstruct(d, FALSE, 0, 0)
    /\ task_queue_ = << >>
    /\ render = IdleRenderer
    /\ issued = << >>
    /\ applied = << >>
    /\ last_call = NoCall
    /\ calls = 0
    /\ program = NoProgram
    /\ scope = "audio"
    /\ EnvUnused
    /\ machine = NoMachine

AudioRenderBegin == \E n \in 1..AudioMaxSamples : BeginRender(n)

NextAudio == AudioRenderBegin \/ DrainDone \/ Tick \/ RenderEnd

SpecAudio == InitAudio /\ [][NextAudio]_vars

----------------------------------------------------------------------------
(* SpecSplit: an OPLL constructed with any audio divider the constructor    *)
(* accepts, then rendered in calls of several lengths with no register      *)
(* write and no change of range between them. render.total counts the       *)
(* samples written since construction and render.updates the calls of       *)
(* update_all_chanels; render.begun and render.requested are the total when *)
(* the current call began and the number of samples it was asked for.       *)

\* The audio dividers the constructor accepts, as far as they are followed.
SplitDividers == { -1, 0, 1, 2, 3, 4 }

\* The lengths of a render call, and the most samples followed in all: more than
\* one update period of 72 samples.
SplitCounts == { 1, 5, 36 }
MaxSplitTotal == 74

InitSplit ==
    /\ \E d \in SplitDividers : chip = OPLLConstruct(d, FALSE, 0, 0)
    /\ task_queue_ = << >>
    /\ render = IdleRenderer
    /\ issued = << >>
    /\ applied = << >>
    /\ last_call = NoCall
    /\ calls = 0
    /\ program = NoProgram
    /\ scope = "split"
    /\ EnvUnused
    /\ machine = NoMachine

SplitRenderBegin ==
    \E n \in SplitCounts :
        /\ render.total + n <= MaxSplitTotal
        /\ BeginRender(n)

NextSplit == SplitRenderBegin \/ DrainDone \/ Tick \/ RenderEnd

SpecSplit == InitSplit /\ [][NextSplit]_vars

----------------------------------------------------------------------------
(* SpecVolume: an OPLL whose owner calls set_sample_volume_range while the  *)
(* render actor is in update_all_chanels. total_volume_ is a std::atomic    *)
(* that the setter stores directly (it is not deferred to the queue), and   *)
(* every use of the VOLUME macro loads it anew: the update is followed one  *)
(* VOLUME evaluation at a time.                                             *)

\* The range set before rendering starts, and the ranges set while it runs.
LaterRanges == { 2048, 8192 }

\* How many times the range is set while the chip renders.
MaxRangeCalls == 2

\* The bytes in the rhythm register at the start: melodic mode, and rhythm mode
\* with every drum keyed.
VolumeModes == { 0, 63 }

InitVolume ==
    /\ \E range \in VolumeRanges, mode \in VolumeModes :
         chip = set_sample_volume_range(
                    OPLLApply(OPLLConstruct(4, FALSE, 0, 0), 14, mode), range)
    /\ task_queue_ = << >>
    /\ render = IdleRenderer
    /\ issued = << >>
    /\ applied = << >>
    /\ last_call = NoCall
    /\ calls = 0
    /\ scope = "volume"
    /\ program = NoProgram
    /\ EnvUnused
    /\ machine = NoMachine

\* Lines 116-118, called by the control actor at any time.
SetRange ==
    /\ ChipLive
    /\ calls < MaxRangeCalls
    /\ \E range \in LaterRanges :
         /\ range # chip.total_volume_
         /\ chip' = set_sample_volume_range(chip, range)
         /\ last_call' = [ op |-> "set_sample_volume_range", address |-> 0,
                           value |-> range, latched |-> last_call.latched ]
         /\ render' = IF render.pc = "mix"
                       THEN [render EXCEPT !.ranges = @ \cup {range}]
                       ELSE render
    /\ calls' = calls + 1
    /\ UNCHANGED <<task_queue_, issued, applied, scope, program>>
    /\ UNCHANGED <<envVars, machine>>

\* Lines 212-258: the uses of VOLUME in the order update_all_chanels makes them,
\* each with the output slots it assigns and the level it scales.
VolumeUses(c) ==
    << [ slots |-> {3},  raw |-> melodic_output(c.states_[0]) ],
       [ slots |-> {4},  raw |-> melodic_output(c.states_[1]) ],
       [ slots |-> {5},  raw |-> melodic_output(c.states_[2]) ],
       [ slots |-> {9},  raw |-> melodic_output(c.states_[3]) ],
       [ slots |-> {10}, raw |-> melodic_output(c.states_[4]) ],
       [ slots |-> {11}, raw |-> melodic_output(c.states_[5]) ] >>
    \o (IF RhythmMode(c)
        THEN << [ slots |-> {2, 15}, raw |-> melodic_output(c.states_[6]) ],
                [ slots |-> {6, 16}, raw |-> snare_output(c.states_) ],
                [ slots |-> {1, 14}, raw |-> tom_tom_output(c.states_) ],
                [ slots |-> {7, 17}, raw |-> cymbal_output(c.states_) ],
                [ slots |-> {0, 13}, raw |-> high_hat_output(c.states_) ] >>
        ELSE << [ slots |-> {15}, raw |-> melodic_output(c.states_[6]) ],
                [ slots |-> {16}, raw |-> melodic_output(c.states_[7]) ],
                [ slots |-> {17}, raw |-> melodic_output(c.states_[8]) ] >>)

\* Lines 207 and 251-253: the slots update_all_chanels assigns 0 to.
ZeroedSlots(c) == IF RhythmMode(c) THEN {8, 12} ELSE {8, 12, 0, 1, 2, 6, 7, 13, 14}

\* get_samples finds audio_offset_ at 0 and enters update_all_chanels: the channels
\* are updated (only the render actor touches them) and the fixed slots zeroed.
MixBegin ==
    /\ render.pc = "tick"
    /\ render.remaining > 0
    /\ chip.personality = "OPLL"
    /\ ~DividesByZero(chip)
    /\ chip.audio_offset_ = 0
    /\ \E ub \in ShiftOutcomes(chip) :
         chip' = [chip EXCEPT
                    !.states_ = update_all_chanels(chip, ub).states_,
                    !.output_levels_ =
                        [ s \in 0..17 |-> IF s \in ZeroedSlots(chip) THEN 0 ELSE @[s] ]]
    /\ render' = [render EXCEPT !.pc = "mix", !.stage = 0,
                                !.ranges = {chip.total_volume_}]
    /\ UNCHANGED <<task_queue_, issued, applied, last_call, calls, scope, program>>
    /\ UNCHANGED <<envVars, machine>>

\* One use of VOLUME: total_volume_ is loaded and the slots of the use assigned.
MixStep ==
    /\ render.pc = "mix"
    /\ render.stage < Len(VolumeUses(chip))
    /\ LET use == VolumeUses(chip)[render.stage + 1]
       IN  chip' = [chip EXCEPT
                      !.output_levels_ =
                          [ s \in 0..17 |-> IF s \in use.slots
                                            THEN VOLUME(chip, use.raw) ELSE @[s] ]]
    /\ render' = [render EXCEPT !.stage = @ + 1]
    /\ UNCHANGED <<task_queue_, issued, applied, last_call, calls, scope, program>>
    /\ UNCHANGED <<envVars, machine>>

\* update_all_chanels returns; lines 72-74 read the slot and advance audio_offset_.
MixEnd ==
    /\ render.pc = "mix"
    /\ render.stage = Len(VolumeUses(chip))
    /\ chip' = [chip EXCEPT !.audio_offset_ = GetSample(chip).offset]
    /\ \E sample \in SampleRead(chip, GetSample(chip).slot) :
         render' = [render EXCEPT
                       !.pc = "tick", !.remaining = @ - 1, !.sampled = TRUE,
                       !.slot = GetSample(chip).slot, !.updated = TRUE,
                       !.sample = sample,
                       !.rhythm_at_update = RhythmMode(chip)]
    /\ UNCHANGED <<task_queue_, issued, applied, last_call, calls, scope, program>>
    /\ UNCHANGED <<envVars, machine>>

\* A pass of get_samples' loop that finds audio_offset_ above 0.
TickBetween == chip.audio_offset_ # 0 /\ Tick

NextVolume ==
    SetRange \/ RenderBegin \/ DrainDone \/ MixBegin \/ MixStep \/ MixEnd
        \/ TickBetween \/ RenderEnd

SpecVolume == InitVolume /\ [][NextVolume]_vars

----------------------------------------------------------------------------
(* SpecVideo: the ZX Spectrum's Video (Machines/Sinclair/ZXSpectrum/         *)
(* Video.hpp), run for any number of half cycles and asked for the access    *)
(* delay at any time of the frame.                                           *)

\* Video::get_timings, lines 58-76; delays is indexed from 0.
Timings ==
    [ cycles_per_line |-> 228 * 2,
      lines_per_frame |-> 311,
      first_delay     |-> 14361 * 2,
      first_border    |-> 14490 * 2,
      delays          |-> [ i \in 0..15 |->
                              << 2, 1, 0, 0, 14, 13, 12, 11, 10, 9, 8, 7, 6, 5, 4, 3 >>[i + 1] ] ]

\* Line 195: the entry of delays that access_delay returns.
DelayIndex(line_position) == BitAnd(line_position, 7)

\* Video::access_delay, lines 184-196, at time_since_interrupt_ = t.
access_delay(t) ==
    IF t < Timings.first_delay THEN 0
    ELSE LET time_since    == t - Timings.first_delay
             lines         == time_since \div Timings.cycles_per_line
             line_position == time_since % Timings.cycles_per_line
         IN  IF lines >= 192 THEN 0
             ELSE IF line_position >= Timings.first_border - Timings.first_delay THEN 0
             ELSE Timings.delays[DelayIndex(line_position)]

\* Video::run_for, lines 79-144: the loop goes line by line; what it leaves in
\* time_since_interrupt_. The output to the CRT is not followed.
RECURSIVE run_for(_, _)
run_for(t, cycles_remaining) ==
    IF cycles_remaining = 0 THEN t
    ELSE LET offset           == t % Timings.cycles_per_line
             cycles_this_line == Min(cycles_remaining, Timings.cycles_per_line - offset)
         IN  run_for((t + cycles_this_line)
                        % (Timings.cycles_per_line * Timings.lines_per_frame),
                     cycles_remaining - cycles_this_line)

\* The durations run_for is called with, in half cycles: one, a cycle, most of
\* a line and more than a line.
VideoDurations == { 1, 2, 450, 460 }

\* Lines 210-211: a Video after construction; no delay has been asked for.
NewVideo == [ kind |-> "video", time_since_interrupt_ |-> 0, asked |-> FALSE, delay |-> 0 ]

InitVideo ==
    /\ machine = NewVideo
    /\ scope = "video"
    /\ EnvUnused
    /\ ChipUnused

RunFor ==
    /\ machine.kind = "video"
    /\ \E duration \in VideoDurations :
         machine' = [machine EXCEPT
                        !.time_since_interrupt_ = run_for(@, duration),
                        !.asked = FALSE, !.delay = 0]
    /\ UNCHANGED <<envVars, chipVars>>

AccessDelay ==
    /\ machine.kind = "video"
    /\ ~machine.asked
    /\ machine' = [machine EXCEPT !.asked = TRUE,
                                  !.delay = access_delay(machine.time_since_interrupt_)]
    /\ UNCHANGED <<envVars, chipVars>>

NextVideo == RunFor \/ AccessDelay

SpecVideo == InitVideo /\ [][NextVideo]_vars

----------------------------------------------------------------------------
(* The 65816's ProcessorStorage (Processors/65816/Implementation/            *)
(* 65816Storage.cpp): the micro-op programs of the addressing modes and the  *)
(* installation of an instruction. A MicroOp is its enumerator's name; an    *)
(* addressing-mode generator is the name of its function.                    *)

\* access_type_for_operation, lines 23-46; the switch names these operations
\* and no other.
ReadOperations ==
    { "ADC", "AND", "BIT", "CMP", "CPX", "CPY", "EOR", "ORA", "SBC",
      "LDA", "LDX", "LDY",
      "JMP", "JSR", "JML", "JSL",
      "ASL", "DEC", "INC", "LSR", "ROL", "ROR", "TRB", "TSB",
      "MVN", "MVP" }

WriteOperations == { "STA", "STX", "STY", "STZ" }

access_type_for_operation(operation) ==
    CASE operation \in ReadOperations  -> "Read"
      [] operation \in WriteOperations -> "Write"

\* The closing 8- or 16-bit read or write, lines 131-141.
read_write(type, is8bit) ==
    IF type = "Write"
    THEN <<"OperationPerform">>
         \o (IF ~is8bit THEN <<"CycleStoreIncrementData">> ELSE << >>)
         \o <<"CycleStoreData">>
    ELSE (IF ~is8bit THEN <<"CycleFetchIncrementData">> ELSE << >>)
         \o <<"CycleFetchData", "OperationPerform">>

\* The closing read-modify-write, lines 143-154.
read_modify_write(is8bit) ==
       (IF ~is8bit THEN <<"CycleFetchIncrementData">> ELSE << >>)
    \o <<"CycleFetchData">>
    \o (IF ~is8bit THEN <<"CycleFetchData">> ELSE <<"CycleStoreData">>)
    \o <<"OperationPerform">>
    \o (IF ~is8bit THEN <<"CycleStoreDecrementData">> ELSE << >>)
    \o <<"CycleStoreData">>

\* 1a. Absolute; a, lines 157-163.
absolute(type, is8bit) ==
       << "CycleFetchIncrementPC", "CycleFetchIncrementPC",
          "OperationConstructAbsolute" >>
    \o read_write(type, is8bit)

\* 1b. Absolute; a, JMP, lines 166-171.
absolute_jmp(type, is8bit) ==
       << "CycleFetchIncrementPC", "CycleFetchPC",
          "OperationConstructAbsolute", "OperationPerform" >>

\* 1c. Absolute; a, JSR, lines 174-182.
absolute_jsr(type, is8bit) ==
       << "CycleFetchIncrementPC", "CycleFetchPC", "CycleFetchPC",
          "OperationConstructAbsolute", "OperationPerform", "CyclePush",
          "CyclePush" >>

\* 1d. Absolute; a, read-modify-write, lines 185-191.
absolute_rmw(type, is8bit) ==
       << "CycleFetchIncrementPC", "CycleFetchIncrementPC",
          "OperationConstructAbsolute" >>
    \o read_modify_write(is8bit)

\* 2a. Absolute Indexed Indirect; (a, x), JMP, lines 194-202.
absolute_indexed_indirect_jmp(type, is8bit) ==
       << "CycleFetchIncrementPC", "CycleFetchPC", "CycleFetchPC",
          "OperationConstructAbsoluteIndexedIndirect",
          "CycleFetchIncrementData", "CycleFetchData",
          "OperationPerform" >>

\* 2b. Absolute Indexed Indirect; (a, x), JSR, lines 205-219.
absolute_indexed_indirect_jsr(type, is8bit) ==
       << "CycleFetchIncrementPC", "OperationCopyPCToData", "CyclePush",
          "CyclePush", "CycleFetchPC", "CycleFetchPC",
          "OperationConstructAbsoluteIndexedIndirect",
          "CycleFetchIncrementData", "CycleFetchData",
          "OperationPerform" >>

\* 3a. Absolute Indirect; (a), JML, lines 222-232.
absolute_indirect_jml(type, is8bit) ==
       << "CycleFetchIncrementPC", "CycleFetchPC",
          "OperationConstructAbsolute", "CycleFetchIncrementData",
          "CycleFetchIncrementData", "CycleFetchData",
          "OperationPerform" >>

\* 3b. Absolute Indirect; (a), JMP, lines 235-244.
absolute_indirect_jmp(type, is8bit) ==
       << "CycleFetchIncrementPC", "CycleFetchPC",
          "OperationConstructAbsolute", "CycleFetchIncrementData",
          "CycleFetchData", "OperationPerform" >>

\* 4a. Absolute long; al, lines 247-255.
absolute_long(type, is8bit) ==
       << "CycleFetchIncrementPC", "CycleFetchIncrementPC",
          "CycleFetchPC", "OperationConstructAbsolute" >>
    \o read_write(type, is8bit)

\* 4b. Absolute long; al, JMP, lines 258-265.
absolute_long_jmp(type, is8bit) ==
       << "CycleFetchIncrementPC", "CycleFetchIncrementPC",
          "CycleFetchPC", "OperationConstructAbsolute",
          "OperationPerform" >>

\* 4c. Absolute long; al, JSL, lines 268-283.
absolute_long_jsl(type, is8bit) ==
       << "CycleFetchIncrementPC", "CycleFetchIncrementPC",
          "OperationCopyPBRToData", "CyclePush", "CycleAccessStack",
          "CycleFetchIncrementPC", "OperationConstructAbsolute",
          "OperationPerform", "CyclePush", "CyclePush" >>

\* 5. Absolute long, X; al, x, lines 286-294.
absolute_long_x(type, is8bit) ==
       << "CycleFetchIncrementPC", "CycleFetchIncrementPC",
          "CycleFetchIncrementPC", "OperationConstructAbsoluteLongX" >>
    \o read_write(type, is8bit)

\* 6a. Absolute, X; a, x, lines 297-310.
absolute_x(type, is8bit) ==
       <<"CycleFetchIncrementPC", "CycleFetchIncrementPC">>
    \o (IF type = "Read" THEN <<"OperationConstructAbsoluteXRead">> ELSE <<"OperationConstructAbsoluteX">>)
    \o <<"CycleFetchIncorrectDataAddress">>
    \o read_write(type, is8bit)

\* 6b. Absolute, X; a, x, read-modify-write, lines 313-321.
absolute_x_rmw(type, is8bit) ==
       << "CycleFetchIncrementPC", "CycleFetchIncrementPC",
          "OperationConstructAbsoluteX",
          "CycleFetchIncorrectDataAddress" >>
    \o read_modify_write(is8bit)

\* 7. Absolute, Y; a, y, lines 324-337.
absolute_y(type, is8bit) ==
       <<"CycleFetchIncrementPC", "CycleFetchIncrementPC">>
    \o (IF type = "Read" THEN <<"OperationConstructAbsoluteYRead">> ELSE <<"OperationConstructAbsoluteY">>)
    \o <<"CycleFetchIncorrectDataAddress">>
    \o read_write(type, is8bit)

\* 8. Accumulator; A, lines 340-348.
accumulator(type, is8bit) ==
       << "CycleFetchPC", "OperationCopyAToData", "OperationPerform",
          "OperationCopyDataToA" >>

\* 9. Block Move Negative and Positive, lines 354-365.
block_move(type, is8bit) ==
       << "CycleFetchIncrementPC", "CycleFetchIncrementPC",
          "CycleFetchBlockX", "CycleStoreBlockY", "CycleFetchBlockY",
          "CycleFetchBlockY", "OperationPerform" >>

\* 10a. Direct; d, lines 369-376.
direct(type, is8bit) ==
       << "CycleFetchIncrementPC", "OperationConstructDirect",
          "CycleFetchPC" >>
    \o read_write(type, is8bit)

\* 10b. Direct; d, read-modify-write, lines 380-387.
direct_rmw(type, is8bit) ==
       << "CycleFetchIncrementPC", "OperationConstructDirect",
          "CycleFetchPC" >>
    \o read_modify_write(is8bit)

\* 11. Direct Indexed Indirect; (d, x), lines 390-399.
direct_indexed_indirect(type, is8bit) ==
       << "CycleFetchIncrementPC",
          "OperationConstructDirectIndexedIndirect", "CycleFetchPC",
          "CycleFetchPC" >>
    \o read_write(type, is8bit)

\* 12. Direct Indirect; (d), lines 402-409.
direct_indirect(type, is8bit) ==
       << "CycleFetchIncrementPC", "OperationConstructDirectIndirect",
          "CycleFetchPC" >>
    \o read_write(type, is8bit)

\* The addressing-mode generators.
Generators ==
    { "absolute",
      "absolute_jmp",
      "absolute_jsr",
      "absolute_rmw",
      "absolute_indexed_indirect_jmp",
      "absolute_indexed_indirect_jsr",
      "absolute_indirect_jml",
      "absolute_indirect_jmp",
      "absolute_long",
      "absolute_long_jmp",
      "absolute_long_jsl",
      "absolute_long_x",
      "absolute_x",
      "absolute_x_rmw",
      "absolute_y",
      "accumulator",
      "block_move",
      "direct",
      "direct_rmw",
      "direct_indexed_indirect",
      "direct_indirect" }

\* Lines 66 and 73: (*generator)(access_type, is8bit, target), as the micro-ops
\* the generator hands to target, in order.
Generate(generator, type, is8bit) ==
    CASE generator = "absolute" -> absolute(type, is8bit)
      [] generator = "absolute_jmp" -> absolute_jmp(type, is8bit)
      [] generator = "absolute_jsr" -> absolute_jsr(type, is8bit)
      [] generator = "absolute_rmw" -> absolute_rmw(type, is8bit)
      [] generator = "absolute_indexed_indirect_jmp" -> absolute_indexed_indirect_jmp(type, is8bit)
      [] generator = "absolute_indexed_indirect_jsr" -> absolute_indexed_indirect_jsr(type, is8bit)
      [] generator = "absolute_indirect_jml" -> absolute_indirect_jml(type, is8bit)
      [] generator = "absolute_indirect_jmp" -> absolute_indirect_jmp(type, is8bit)
      [] generator = "absolute_long" -> absolute_long(type, is8bit)
      [] generator = "absolute_long_jmp" -> absolute_long_jmp(type, is8bit)
      [] generator = "absolute_long_jsl" -> absolute_long_jsl(type, is8bit)
      [] generator = "absolute_long_x" -> absolute_long_x(type, is8bit)
      [] generator = "absolute_x" -> absolute_x(type, is8bit)
      [] generator = "absolute_x_rmw" -> absolute_x_rmw(type, is8bit)
      [] generator = "absolute_y" -> absolute_y(type, is8bit)
      [] generator = "accumulator" -> accumulator(type, is8bit)
      [] generator = "block_move" -> block_move(type, is8bit)
      [] generator = "direct" -> direct(type, is8bit)
      [] generator = "direct_rmw" -> direct_rmw(type, is8bit)
      [] generator = "direct_indexed_indirect" -> direct_indexed_indirect(type, is8bit)
      [] generator = "direct_indirect" -> direct_indirect(type, is8bit)

\* A table line that installs nothing.
NoOp == <<"none", "none">>

\* ProcessorStorage::ProcessorStorage, lines 425-695: the lines of the opcode
\* table, 0x00 first, each with the generator and the operation of its op(...),
\* if it has one.
OpcodeTable ==
    << NoOp, <<"direct_indexed_indirect", "ORA">>, NoOp, NoOp,
       <<"direct_rmw", "TSB">>, <<"direct", "ORA">>, <<"direct_rmw", "ASL">>, NoOp,
       NoOp, NoOp, <<"accumulator", "ASL">>, NoOp,
       <<"absolute_rmw", "TSB">>, <<"absolute", "ORA">>, <<"absolute_rmw", "ASL">>, <<"absolute_long", "ORA">>,
       NoOp, NoOp, <<"direct_indirect", "ORA">>, NoOp,
       <<"absolute_rmw", "TRB">>, NoOp, NoOp, NoOp,
       NoOp, <<"absolute_y", "ORA">>, <<"accumulator", "INC">>, NoOp,
       <<"absolute_rmw", "TRB">>, <<"absolute_x", "ORA">>, <<"absolute_x_rmw", "ASL">>, <<"absolute_long_x", "ORA">>,
       <<"absolute_jsr", "JSR">>, NoOp, <<"direct_indexed_indirect", "AND">>, <<"absolute_long_jsl", "JSL">>,
       <<"direct", "BIT">>, <<"direct", "AND">>, <<"absolute_rmw", "ROL">>, NoOp,
       NoOp, NoOp, <<"accumulator", "ROL">>, NoOp,
       <<"absolute", "BIT">>, <<"absolute", "AND">>, <<"absolute_rmw", "ROL">>, <<"absolute_long", "AND">>,
       NoOp, NoOp, <<"direct_indirect", "AND">>, NoOp,
       NoOp, NoOp, <<"absolute_x_rmw", "ROL">>, NoOp,
       NoOp, <<"absolute_y", "AND">>, <<"accumulator", "DEC">>, NoOp,
       <<"absolute_x", "BIT">>, <<"absolute_x", "AND">>, NoOp, <<"absolute_long_x", "AND">>,
       NoOp, <<"direct_indexed_indirect", "EOR">>, NoOp, NoOp,
       <<"block_move", "MVP">>, <<"direct", "EOR">>, <<"direct_rmw", "LSR">>, NoOp,
       NoOp, NoOp, <<"accumulator", "LSR">>, NoOp,
       <<"absolute", "JMP">>, <<"absolute", "EOR">>, <<"absolute_rmw", "LSR">>, <<"absolute_long", "EOR">>,
       NoOp, NoOp, <<"direct_indirect", "EOR">>, NoOp,
       <<"block_move", "MVN">>, NoOp, NoOp, NoOp,
       NoOp, <<"absolute_y", "EOR">>, NoOp, NoOp,
       <<"absolute_long_jmp", "JML">>, <<"absolute_x", "EOR">>, <<"absolute_x_rmw", "LSR">>, <<"absolute_long_x", "EOR">>,
       NoOp, <<"direct_indexed_indirect", "ADC">>, NoOp, NoOp,
       <<"direct", "STZ">>, <<"direct", "ADC">>, <<"direct_rmw", "ROR">>, NoOp,
       NoOp, NoOp, <<"accumulator", "ROR">>, NoOp,
       <<"absolute_indirect_jmp", "JMP">>, <<"absolute", "ADC">>, <<"absolute_rmw", "ROR">>, <<"absolute_long", "ADC">>,
       NoOp, NoOp, <<"direct_indirect", "ADC">>, NoOp,
       NoOp, NoOp, NoOp, NoOp,
       NoOp, <<"absolute_y", "ADC">>, NoOp, NoOp,
       <<"absolute_indexed_indirect_jmp", "JMP">>, <<"absolute_x", "ADC">>, <<"absolute_x_rmw", "ROR">>, <<"absolute_long_x", "ADC">>,
       NoOp, <<"direct_indexed_indirect", "STA">>, NoOp, NoOp,
       <<"direct", "STY">>, <<"direct", "STA">>, <<"direct", "STX">>, NoOp,
       NoOp, NoOp, NoOp, NoOp,
       <<"absolute", "STY">>, <<"absolute", "STA">>, <<"absolute", "STX">>, <<"absolute_long", "STA">>,
       NoOp, NoOp, <<"direct_indirect", "STA">>, NoOp,
       NoOp, NoOp, NoOp, NoOp,
       NoOp, <<"absolute_y", "STA">>, NoOp, NoOp,
       <<"absolute", "STZ">>, <<"absolute_x", "STA">>, <<"absolute_x", "STZ">>, <<"absolute_long_x", "STA">>,
       NoOp, <<"direct_indexed_indirect", "LDA">>, NoOp, NoOp,
       <<"direct", "LDY">>, <<"direct", "LDA">>, <<"direct", "LDX">>, NoOp,
       NoOp, NoOp, NoOp, NoOp,
       <<"absolute", "LDY">>, <<"absolute", "LDA">>, <<"absolute", "LDX">>, <<"absolute_long", "LDA">>,
       NoOp, NoOp, <<"direct_indirect", "LDA">>, NoOp,
       NoOp, NoOp, NoOp, NoOp,
       NoOp, <<"absolute_y", "LDA">>, NoOp, NoOp,
       <<"absolute_x", "LDY">>, <<"absolute_x", "LDA">>, <<"absolute_y", "LDX">>, <<"absolute_long_x", "LDA">>,
       NoOp, <<"direct_indexed_indirect", "CMP">>, NoOp, NoOp,
       <<"direct", "CPY">>, <<"direct", "CMP">>, <<"direct_rmw", "DEC">>, NoOp,
       NoOp, NoOp, NoOp, NoOp,
       <<"absolute", "CPY">>, <<"absolute", "CMP">>, <<"absolute_rmw", "DEC">>, <<"absolute_long", "CMP">>,
       NoOp, NoOp, <<"direct_indirect", "CMP">>, NoOp,
       NoOp, NoOp, NoOp, NoOp,
       NoOp, <<"absolute_y", "CMP">>, NoOp, NoOp,
       <<"absolute_indirect_jml", "JML">>, <<"absolute_x", "CMP">>, <<"absolute_x_rmw", "DEC">>, <<"absolute_long_x", "CMP">>,
       NoOp, <<"direct_indexed_indirect", "SBC">>, NoOp, NoOp,
       <<"direct", "CPX">>, <<"direct", "SBC">>, <<"direct_rmw", "INC">>, NoOp,
       NoOp, NoOp, NoOp, NoOp,
       <<"absolute", "CPX">>, <<"absolute", "SBC">>, <<"absolute_rmw", "INC">>, <<"absolute_long", "SBC">>,
       NoOp, NoOp, <<"direct_indirect", "SBC">>, NoOp,
       NoOp, NoOp, NoOp, NoOp,
       NoOp, <<"absolute_y", "SBC">>, NoOp, NoOp,
       <<"absolute_indexed_indirect_jsr", "JMP">>, <<"absolute_x", "SBC">>, <<"absolute_x_rmw", "INC">>, <<"absolute_long_x", "SBC">> >>

\* A line of the opcode table with an op(...): its opcode label and the call.
TableCall(label) ==
    [ label     |-> label,
      generator |-> OpcodeTable[label + 1][1],
      operation |-> OpcodeTable[label + 1][2] ]

\* The labels of the table lines that have an op(...), in source order.
InstallingLabels == { label \in 0..255 : OpcodeTable[label + 1] # NoOp }

\* The install calls the constructor makes, in source order: the n-th is that
\* of the n-th table line with an op(...).
ConstructorCalls ==
    [ n \in 1..Cardinality(InstallingLabels) |->
        TableCall(CHOOSE label \in InstallingLabels :
                     Cardinality({ l \in InstallingLabels : l < label }) = n - 1) ]

\* An entry of instructions that no install has filled in.
NoInstruction == [ program_offset |-> 0, operation |-> "none" ]

\* A ProcessorStorage and its ProcessorStorageConstructor before the first
\* install, lines 14-17 and 48-51: no micro-ops, no installed patterns, opcode
\* 0. `installs` lists the install calls made, each with the opcode it filled
\* in; `constructed` is whether ProcessorStorage's constructor has returned.
NewStorage ==
    [ kind               |-> "storage",
      micro_ops_         |-> << >>,
      instructions       |-> [ k \in 0..511 |-> NoInstruction ],
      installed_patterns |-> << >>,
      opcode             |-> 0,
      installs           |-> << >>,
      constructed        |-> FALSE ]

\* micro_ops_[i], the vector being indexed from 0.
MicroOpAt(micro_ops, i) == micro_ops[i + 1]

\* Lines 78-88: whether the 8-bit program at location_8 and the 16-bit program
\* at location_16 are the same up to and including OperationMoveToNextProgram.
RECURSIVE are_equal(_, _, _, _)
are_equal(micro_ops, location_8, location_16, c) ==
    IF MicroOpAt(micro_ops, location_8 + c) # MicroOpAt(micro_ops, location_16 + c)
    THEN FALSE
    ELSE IF MicroOpAt(micro_ops, location_8 + c) = "OperationMoveToNextProgram"
    THEN TRUE
    ELSE are_equal(micro_ops, location_8, location_16, c + 1)

\* Line 56: the key installed_patterns is searched and filled in with.
GeneratorKey_GeneratorOnly(access_type, generator) == << "Read", generator >>

GeneratorKey(access_type, generator) == << access_type, generator >>

\* Lines 64-96: both programs generated at the end of micro_ops_, the 16-bit
\* one dropped again if it equals the 8-bit one; the locations of the two.
GeneratePrograms(micro_ops, generator, access_type) ==
    LET micro_op_location_8  == Len(micro_ops)
        with_8   == micro_ops \o Generate(generator, access_type, TRUE)
                              \o << "OperationMoveToNextProgram" >>
        micro_op_location_16 == Len(with_8)
        with_16  == with_8 \o Generate(generator, access_type, FALSE)
                           \o << "OperationMoveToNextProgram" >>
    IN  IF are_equal(with_16, micro_op_location_8, micro_op_location_16, 0)
        THEN [ micro_ops |-> SubSeq(with_16, 1, micro_op_location_16),
               locations |-> << micro_op_location_8, micro_op_location_8 >> ]
        ELSE [ micro_ops |-> with_16,
               locations |-> << micro_op_location_8, micro_op_location_16 >> ]

\* ProcessorStorageConstructor::install, lines 52-110. opcode is a uint8_t.
install(s, generator, operation) ==
    LET access_type == access_type_for_operation(operation)
        key         == GeneratorKey(access_type, generator)
        found       == key \in DOMAIN s.installed_patterns
        generated   == GeneratePrograms(s.micro_ops_, generator, access_type)
        locations   == IF found THEN s.installed_patterns[key] ELSE generated.locations
    IN  [ s EXCEPT
            !.micro_ops_ = IF found THEN @ ELSE generated.micro_ops,
            !.installed_patterns =
                IF found THEN @
                ELSE [ k \in DOMAIN s.installed_patterns \cup { key } |->
                         IF k = key THEN locations ELSE s.installed_patterns[k] ],
            !.instructions =
                [ k \in 0..511 |->
                    CASE k = s.opcode ->
                           [ program_offset |-> locations[1], operation |-> operation ]
                      [] k = s.opcode + 256 ->
                           [ program_offset |-> locations[2], operation |-> operation ]
                      [] OTHER -> s.instructions[k] ],
            !.opcode = (@ + 1) % 256,
            !.installs = Append(@, [ generator |-> generator, operation |-> operation,
                                     opcode |-> s.opcode ]) ]

----------------------------------------------------------------------------
(* SpecStorage: the construction of a ProcessorStorage, one install call of  *)
(* the opcode table at a time.                                               *)

InitStorage ==
    /\ machine = NewStorage
    /\ scope = "storage"
    /\ EnvUnused
    /\ ChipUnused

\* The next op(...) of the table.
TableInstall ==
    /\ machine.kind = "storage"
    /\ scope = "storage"
    /\ Len(machine.installs) < Len(ConstructorCalls)
    /\ LET call == ConstructorCalls[Len(machine.installs) + 1]
       IN  machine' = install(machine, call.generator, call.operation)
    /\ UNCHANGED <<envVars, chipVars>>

\* Lines 697-701: the table is through and the constructor returns.
Constructed ==
    /\ machine.kind = "storage"
    /\ scope = "storage"
    /\ ~machine.constructed
    /\ Len(machine.installs) = Len(ConstructorCalls)
    /\ machine' = [machine EXCEPT !.constructed = TRUE]
    /\ UNCHANGED <<envVars, chipVars>>

NextStorage == TableInstall \/ Constructed

SpecStorage == InitStorage /\ [][NextStorage]_vars

----------------------------------------------------------------------------
(* SpecInstall: a ProcessorStorageConstructor on which install is called     *)
(* with any generator and operation, a few times.                            *)

\* How many install calls are followed.
MaxInstalls == 3

\* The generators installed: one whose programs depend on access type and
\* width, one whose address construction depends on the access type too, one
\* that depends on the width only, and two that depend on neither.
InstallGenerators == { "absolute", "absolute_x", "absolute_rmw", "accumulator", "absolute_jsr" }

\* The operations installed: two that read and one that writes.
InstallOperations == { "LDA", "ASL", "STA" }

InitInstall ==
    /\ machine = NewStorage
    /\ scope = "install"
    /\ EnvUnused
    /\ ChipUnused

Install ==
    /\ machine.kind = "storage"
    /\ scope = "install"
    /\ Len(machine.installs) < MaxInstalls
    /\ \E generator \in InstallGenerators, operation \in InstallOperations :
         machine' = install(machine, generator, operation)
    /\ UNCHANGED <<envVars, chipVars>>

NextInstall == Install

SpecInstall == InitInstall /\ [][NextInstall]_vars

----------------------------------------------------------------------------
(* SpecPerformers: the M50740 Executor's PerformerLookup (InstructionSets/   *)
(* M50740/Executor.hpp 44-74), constructed and then asked for performers.    *)
(* The enumerations Operation and AddressingMode are Instruction.hpp's: the  *)
(* lookup is followed for several ranges [MinOperation, MaxOperation) and    *)
(* [MinAddressingMode, MaxAddressingMode). The function                      *)
(* perform<operation, addressing_mode> is the pair of the two.               *)

\* The ranges of the enumerations: where each begins and how many values it has.
FirstEnumerators == { 0, 1 }
EnumeratorCounts == { 1, 2, 3 }

\* nullptr, and an entry of performers that nothing has been stored in.
NoPerformer == << -1, -1 >>
Unset == << -2, -2 >>

\* Every perform<operation, addressing_mode> of the ranges.
Performers(m) ==
    (m.MinOperation..(m.MaxOperation - 1))
        \X (m.MinAddressingMode..(m.MaxAddressingMode - 1))

\* Line 58: the array, with as many entries as there are pairs.
NewPerformers(m) ==
    [ i \in 0..((m.MaxAddressingMode - m.MinAddressingMode)
                  * (m.MaxOperation - m.MinOperation) - 1) |-> Unset ]

\* Line 61, *target = ...: a store beyond the array is undefined behaviour,
\* recorded in overrun.
StorePerformer(p, target, performer) ==
    IF target \in DOMAIN p.performers
    THEN [p EXCEPT !.performers[target] = performer]
    ELSE [p EXCEPT !.overrun = TRUE]

RECURSIVE fill(_, _, _, _, _)
RECURSIVE fill_operation(_, _, _, _, _)

\* fill_operation<operation, addressing_mode>(target), lines 60-65.
fill_operation(m, p, operation, addressing_mode, target) ==
    LET stored == StorePerformer(p, target, << operation, addressing_mode >>)
    IN  IF addressing_mode + 1 < m.MaxAddressingMode
        THEN fill(m, stored, operation, addressing_mode + 1, target + 1)
        ELSE stored

\* fill<operation, addressing_mode>(target), lines 67-73.
fill(m, p, operation, addressing_mode, target) ==
    LET filled == fill_operation(m, p, operation, addressing_mode, target)
    IN  IF operation + 1 < m.MaxOperation
        THEN fill(m, filled, operation + 1, addressing_mode,
                  target + (m.MaxOperation - m.MinOperation))
        ELSE filled

\* PerformerLookup::PerformerLookup, lines 48-50.
PerformerLookup(m) ==
    LET filled == fill(m, [ performers |-> NewPerformers(m), overrun |-> FALSE ],
                       m.MinOperation, m.MinAddressingMode, 0)
    IN  [m EXCEPT !.performers = filled.performers, !.overrun = filled.overrun,
                  !.constructed = TRUE]

\* Line 53: the index performer reads.
PerformerIndex(m, operation, addressing_mode) ==
    addressing_mode * (m.MaxOperation - m.MinOperation) + operation - m.MinOperation

\* PerformerLookup::performer, lines 52-54: what it may return. A read beyond
\* the array, a read of an entry never stored in, and any read after a store
\* beyond the array are undefined: any pointer may come back.
performer(m, operation, addressing_mode) ==
    LET index == PerformerIndex(m, operation, addressing_mode)
    IN  IF /\ ~m.overrun
           /\ index \in DOMAIN m.performers
           /\ m.performers[index] # Unset
        THEN { m.performers[index] }
        ELSE Performers(m) \cup { NoPerformer }

\* A PerformerLookup before its constructor has run; no performer asked for.
NewLookup(min_operation, operations, min_addressing_mode, addressing_modes) ==
    [ kind              |-> "lookup",
      MinOperation      |-> min_operation,
      MaxOperation      |-> min_operation + operations,
      MinAddressingMode |-> min_addressing_mode,
      MaxAddressingMode |-> min_addressing_mode + addressing_modes,
      performers        |-> << >>,
      overrun           |-> FALSE,
      constructed       |-> FALSE,
      asked             |-> NoPerformer,
      returned          |-> NoPerformer ]

InitPerformers ==
    /\ \E min_operation \in FirstEnumerators, operations \in EnumeratorCounts,
          min_addressing_mode \in FirstEnumerators, addressing_modes \in EnumeratorCounts :
         machine = NewLookup(min_operation, operations, min_addressing_mode, addressing_modes)
    /\ scope = "performers"
    /\ EnvUnused
    /\ ChipUnused

ConstructLookup ==
    /\ machine.kind = "lookup"
    /\ ~machine.constructed
    /\ machine' = PerformerLookup(machine)
    /\ UNCHANGED <<envVars, chipVars>>

AskPerformer ==
    /\ machine.kind = "lookup"
    /\ machine.constructed
    /\ machine.asked = NoPerformer
    /\ \E pair \in Performers(machine) :
         \E result \in performer(machine, pair[1], pair[2]) :
            machine' = [machine EXCEPT !.asked = pair, !.returned = result]
    /\ UNCHANGED <<envVars, chipVars>>

NextPerformers == ConstructLookup \/ AskPerformer

SpecPerformers == InitPerformers /\ [][NextPerformers]_vars

----------------------------------------------------------------------------
(* C1: after every Operator::update, whatever the envelope phase, the       *)
(* rates, the sustain level and key_on, the envelope attenuation            *)
(* adsr_attenuation_ lies in 0..511.                                        *)
C1_AttenuationInRange ==
    env_updated => (state.adsr_attenuation_ >= 0 /\ state.adsr_attenuation_ <= 511)

\* An update in Release stepped the attenuation into the clamp at 511, and an Attack
\* reached the floor at 0: both ends of the range are met.
C1_Witness ==
    /\ env_updated
    /\ env_pre.adsr_phase_ = "Release" /\ env_pre.adsr_attenuation_ = 509
    /\ oper.release_rate_ = 4
    /\ ~env_in.key_on
    /\ state.adsr_attenuation_ = 511

(* C10: an update called with key_on false leaves the envelope phase in      *)
(* Release, whatever the phase was before.                                  *)
C10_KeyOffForcesRelease ==
    (env_updated /\ ~env_in.key_on) => state.adsr_phase_ = "Release"

\* key_on went false while the operator was holding in Sustain.
C10_Witness ==
    /\ env_updated /\ ~env_in.key_on
    /\ env_pre.adsr_phase_ = "Sustain"
    /\ state.adsr_phase_ = "Release"

----------------------------------------------------------------------------
(* Claims about the envelope step of the most recent update.                *)

\* The phase and the counter the envelope step of that update started from: what
\* the key-on logic left of the state before the update.
StepPhase == KeyOnPhase(env_pre.adsr_phase_, env_in.key_on, env_pre.last_key_on_)
StepTime == KeyOnTime(env_pre.time_in_phase_, env_in.key_on, env_pre.last_key_on_)

\* The update saw key_on true after an update that saw it false (or after none).
KeyOnEdge == env_updated /\ env_in.key_on /\ ~env_pre.last_key_on_

(* C11, as stated: an update that sees key_on true after it was false on     *)
(* the previous update leaves the phase Attack and the tick-in-phase counter *)
(* at 0, whatever the phase was before.                                      *)
C11_EdgeLeavesAttackAtZero ==
    KeyOnEdge => (state.adsr_phase_ = "Attack" /\ state.time_in_phase_ = 0)

(* C11, amended: on such an update the envelope step starts from Attack with *)
(* the counter reset to 0, so that the attack step applies on that tick; the *)
(* update leaves Attack with the counter at 1, or, when the step brought the *)
(* attenuation to 0 or below, Decay with the counter at 0 and attenuation 0. *)
C11_EdgeStepsFromAttackAtZero ==
    KeyOnEdge =>
        LET before  == env_pre.adsr_attenuation_
            stepped == IF oper.attack_rate_ >= 56
                       THEN before - (before \div 4) - 1
                       ELSE before - (before \div 8) - 1
        IN  IF stepped <= 0
            THEN /\ state.adsr_phase_ = "Decay"
                 /\ state.time_in_phase_ = 0
                 /\ state.adsr_attenuation_ = 0
            ELSE /\ state.adsr_phase_ = "Attack"
                 /\ state.time_in_phase_ = 1
                 /\ state.adsr_attenuation_ = stepped

\* A voice released part of the way was keyed on again, at a divided attack rate.
C11_Witness ==
    /\ KeyOnEdge
    /\ env_pre.adsr_phase_ = "Release"
    /\ env_pre.adsr_attenuation_ \in 1..510
    /\ oper.attack_rate_ < 56
    /\ state.adsr_phase_ = "Attack" /\ state.time_in_phase_ = 1

(* C12, as stated: an update whose envelope step starts in Attack leaves the *)
(* attenuation strictly lower than before; it leaves the phase Decay exactly *)
(* when the attenuation became <= 0 (or attack_rate > 60), and then the      *)
(* attenuation is 0.                                                         *)
C12_AttackStrictlyDecreases ==
    (env_updated /\ StepPhase = "Attack") =>
        /\ state.adsr_attenuation_ < env_pre.adsr_attenuation_
        /\ state.adsr_phase_ \in {"Attack", "Decay"}
        /\ state.adsr_phase_ = "Decay" => state.adsr_attenuation_ = 0
        /\ state.adsr_phase_ = "Attack" =>
                (state.adsr_attenuation_ > 0 /\ oper.attack_rate_ <= 60)

\* Whether the attack step applies on the tick: always at attack rates 14 and 15,
\* and at the lower rates when the counter is a multiple of 2^(14 - rate).
AttackStepApplies ==
    \/ oper.attack_rate_ >= 56
    \/ StepTime % Pow2(14 - (oper.attack_rate_ \div 4)) = 0

(* C12, amended: in Attack the attenuation never increases; it strictly      *)
(* decreases on the ticks on which the attack step applies (every tick at    *)
(* attack rates 14 and 15; at a lower rate r the ticks whose counter is a    *)
(* multiple of 2^(14 - r)), unless it was 0 already, and is unchanged on the *)
(* other ticks. The phase changes to Decay exactly on the tick where the     *)
(* attenuation becomes <= 0 or attack_rate > 60, and it is then 0.           *)
C12_AttackNeverIncreases ==
    (env_updated /\ StepPhase = "Attack") =>
        /\ state.adsr_attenuation_ <= env_pre.adsr_attenuation_
        /\ (AttackStepApplies /\ env_pre.adsr_attenuation_ > 0) =>
                state.adsr_attenuation_ < env_pre.adsr_attenuation_
        /\ ~AttackStepApplies => state.adsr_attenuation_ = env_pre.adsr_attenuation_
        /\ state.adsr_phase_ \in {"Attack", "Decay"}
        /\ state.adsr_phase_ = "Decay" => state.adsr_attenuation_ = 0
        /\ state.adsr_phase_ = "Attack" =>
                (state.adsr_attenuation_ > 0 /\ oper.attack_rate_ <= 60)

\* A tick of a divided attack (rate 12: one step every 4 ticks) between two steps.
C12_Witness ==
    /\ env_updated /\ StepPhase = "Attack"
    /\ oper.attack_rate_ = 48
    /\ StepTime = 2
    /\ state.adsr_phase_ = "Attack"
    /\ state.adsr_attenuation_ = env_pre.adsr_attenuation_
    /\ state.adsr_attenuation_ < 511

\* The rate that applies to the envelope step of the update.
DecreaseRate == IF StepPhase = "Decay" THEN oper.decay_rate_ ELSE oper.release_rate_

(* C13: an update whose envelope step starts in Decay or Release never       *)
(* leaves the attenuation lower than it was before the update, and when the  *)
(* applicable rate (decay_rate in Decay, release_rate in Release) is 0 it    *)
(* leaves the attenuation unchanged.                                         *)
C13_DecayReleaseNeverDecreases ==
    (env_updated /\ StepPhase \in {"Decay", "Release"}) =>
        /\ state.adsr_attenuation_ >= env_pre.adsr_attenuation_
        /\ DecreaseRate = 0 => state.adsr_attenuation_ = env_pre.adsr_attenuation_

\* Whether the voice holds at its sustain level: its own flag or the override's.
HoldFlag == oper.use_sustain_level_ \/ (overrides.present /\ overrides.use_sustain_level)

(* C14: an update whose envelope step starts in Decay stays in Decay while   *)
(* the attenuation is below sustain_level << 5 and leaves Decay on the first *)
(* tick at which it reaches it; on that tick the attenuation is exactly      *)
(* sustain_level << 5 and the phase becomes Sustain if the sustain-hold flag *)
(* (the operator's own or the override's) is set, and Release otherwise.     *)
C14_DecayExit ==
    (env_updated /\ StepPhase = "Decay") =>
        IF state.adsr_phase_ = "Decay"
        THEN state.adsr_attenuation_ < oper.sustain_level_ * 32
        ELSE /\ state.adsr_attenuation_ = oper.sustain_level_ * 32
             /\ state.adsr_phase_ = IF HoldFlag THEN "Sustain" ELSE "Release"

\* A decay at 2 a tick reached sustain level 1 and the voice holds there.
C14_Witness ==
    /\ env_updated /\ StepPhase = "Decay"
    /\ env_pre.adsr_attenuation_ = 30
    /\ oper.sustain_level_ = 1
    /\ state.adsr_attenuation_ = 32
    /\ state.adsr_phase_ = "Sustain"

----------------------------------------------------------------------------
(* Claims about is_audible and the configuration setters.                   *)

\* is_audible was the last call on the operator, so its result is of this state.
AudibleAsked == op_call.name = "is_audible" /\ ~env_updated

\* The attenuation in force, the override's or else the static one, is at its
\* maximum representable value.
AttenuationAtMaximum ==
    IF overrides.present THEN overrides.attenuation = 15 ELSE oper.attenuation_ = 63

(* C21, as stated: is_audible returns false if and only if the operator is   *)
(* in Release, the attenuation in force is at its maximum and the envelope   *)
(* attenuation is 511; in every other state it returns true.                 *)
C21_InaudibleOnlyWhenAllThree ==
    AudibleAsked =>
        (op_call.result = FALSE <=>
            (/\ state.adsr_phase_ = "Release"
             /\ AttenuationAtMaximum
             /\ state.adsr_attenuation_ = 511))

(* C21, amended: is_audible returns false if and only if the operator is in  *)
(* Release with the attenuation in force at its maximum, or the envelope     *)
(* attenuation is 511; in every other state it returns true.                 *)
C21_InaudibleWhenEither ==
    AudibleAsked =>
        (op_call.result = FALSE <=>
            (\/ state.adsr_phase_ = "Release" /\ AttenuationAtMaximum
             \/ state.adsr_attenuation_ = 511))

\* Asked of an operator under an override at its maximum, released while its
\* envelope was part of the way up: it is not audible.
C21_Witness ==
    /\ AudibleAsked
    /\ op_call.result = FALSE
    /\ overrides.present /\ overrides.attenuation = 15
    /\ oper.attenuation_ = 0
    /\ state.adsr_phase_ = "Release"
    /\ state.adsr_attenuation_ < 511

\* The step is a call of a setter.
SetterStep == op_call' # op_call /\ op_call'.name \in SetterNames

\* Bit number b of the byte v is set.
ByteBit(v, b) == (v \div (2 ^ b)) % 2 = 1

\* The operator that the setter `name` is to leave, given the byte v.
Decoded(name, op, v) ==
    CASE name = "set_attack_decay" ->
           [op EXCEPT !.attack_rate_ = 4 * (v \div 16), !.decay_rate_ = 4 * (v % 16)]
      [] name = "set_sustain_release" ->
           [op EXCEPT !.sustain_level_ = v \div 16, !.release_rate_ = 4 * (v % 16)]
      [] name = "set_scaling_output" ->
           [op EXCEPT !.level_key_scaling_ = v \div 64, !.attenuation_ = v % 64]
      [] name = "set_waveform" ->
           [op EXCEPT !.waveform_ = v % 4]
      [] OTHER ->
           [op EXCEPT !.apply_amplitude_modulation_ = ByteBit(v, 7),
                      !.apply_vibrato_ = ByteBit(v, 6),
                      !.use_sustain_level_ = ByteBit(v, 5),
                      !.key_scaling_rate_ = ByteBit(v, 4),
                      !.frequency_multiple_ = v % 16]

\* Every field of the configuration is within the range it can be decoded to.
ConfigurationInRange(op) ==
    /\ \A rate \in { op.attack_rate_, op.decay_rate_, op.release_rate_ } :
          rate \in { 4 * k : k \in 0..15 }
    /\ op.sustain_level_ \in 0..15
    /\ op.attenuation_ \in 0..63
    /\ op.level_key_scaling_ \in 0..3
    /\ op.waveform_ \in 0..3
    /\ op.frequency_multiple_ \in 0..15
    /\ { op.apply_amplitude_modulation_, op.apply_vibrato_,
         op.use_sustain_level_, op.key_scaling_rate_ } \subseteq BOOLEAN

(* C22: a call of a configuration setter with any byte 0..255 sets exactly   *)
(* the fields it decodes, to the masked values, all of them in range, and    *)
(* leaves every other configuration field, the runtime state and the         *)
(* overrides unchanged.                                                      *)
C22_SettersMaskAndFrame ==
    [][ SetterStep =>
          /\ oper' = Decoded(op_call'.name, oper, op_call'.value)
          /\ ConfigurationInRange(oper')
          /\ state' = state
          /\ overrides' = overrides ]_vars

\* set_scaling_output was called with 0xff on an operator one update into a note:
\* key-scaling level 3 and attenuation 63, the rates and the waveform as before.
C22_Witness ==
    /\ op_call = OperatorCall("set_scaling_output", 255, FALSE)
    /\ oper.level_key_scaling_ = 3
    /\ oper.attenuation_ = 63
    /\ oper.waveform_ = 2
    /\ oper.attack_rate_ = 60
    /\ state.adsr_phase_ = "Attack"

----------------------------------------------------------------------------
(* Claims about the envelope rates and the tick-in-phase counter.           *)

\* The 4-bit rate written to the register for the phase of the envelope step.
DecreaseNibble == DecreaseRate \div 4

\* The envelope step of the update ran the Decay/Release branch and neither the
\* clamp to 511 nor the decay exit cut its result.
PlainDecrease ==
    /\ env_updated
    /\ StepPhase \in {"Decay", "Release"}
    /\ state.adsr_phase_ = StepPhase
    /\ state.adsr_attenuation_ < 511

\* By how much the update raised the envelope attenuation.
Rise == state.adsr_attenuation_ - env_pre.adsr_attenuation_

(* C26: in Decay or Release, with r the 4-bit rate written to the register,  *)
(* the envelope attenuation does not move for r = 0, rises by 4 per tick for *)
(* r = 1, by 2 per tick for r = 2, by 1 per tick for r = 3, by 1 every other *)
(* tick for r = 4 (two consecutive ticks raise it by 1 in all), and half as  *)
(* often again for each higher r (at most one of two consecutive ticks       *)
(* raises it, by 1).                                                         *)
C26_DecreaseRates ==
    [][ PlainDecrease' =>
            /\ DecreaseNibble' = 0 => Rise' = 0
            /\ DecreaseNibble' = 1 => Rise' = 4
            /\ DecreaseNibble' = 2 => Rise' = 2
            /\ DecreaseNibble' = 3 => Rise' = 1
            /\ DecreaseNibble' >= 4 => Rise' \in {0, 1}
            /\ (PlainDecrease /\ StepPhase' = StepPhase /\ DecreaseNibble' = 4) =>
                    Rise + Rise' = 1
            /\ (PlainDecrease /\ StepPhase' = StepPhase /\ DecreaseNibble' >= 5) =>
                    Rise + Rise' <= 1
      ]_vars

(* C27: the tick-in-phase counter is the number of consecutive updates the   *)
(* operator has spent in its current phase: an update that ends in the phase *)
(* it started in increments the counter by exactly 1 (also across            *)
(* consecutive key_on-false updates spent in Release), and only an update in *)
(* which the phase changes leaves it at 0.                                   *)
C27_CounterCountsPhaseTicks ==
    env_updated =>
        /\ state.adsr_phase_ = env_pre.adsr_phase_ =>
                state.time_in_phase_ = env_pre.time_in_phase_ + 1
        /\ state.time_in_phase_ = 0 => state.adsr_phase_ # env_pre.adsr_phase_

\* The update saw key_on true, as the update before it did.
KeyHeld == env_updated /\ env_in.key_on /\ env_pre.last_key_on_

\* The place of a phase on the way Attack -> Decay -> (Sustain or Release).
PhaseRank(phase) ==
    CASE phase = "Attack" -> 0
      [] phase = "Decay"  -> 1
      [] OTHER -> 2

(* C28: while key_on stays true after a leading edge, the envelope phase     *)
(* only moves forward along Attack -> Decay -> (Sustain or Release): an      *)
(* update never returns to Attack or to Decay from a later phase, Attack is  *)
(* left only for Decay, and an update that starts in Sustain leaves both the *)
(* phase and the attenuation unchanged.                                      *)
C28_PhaseOnlyForward ==
    KeyHeld =>
        /\ PhaseRank(state.adsr_phase_) >= PhaseRank(env_pre.adsr_phase_)
        /\ env_pre.adsr_phase_ = "Attack" => state.adsr_phase_ \in {"Attack", "Decay"}
        /\ env_pre.adsr_phase_ \in {"Sustain", "Release"} =>
                state.adsr_phase_ = env_pre.adsr_phase_
        /\ env_pre.adsr_phase_ = "Sustain" =>
                state.adsr_attenuation_ = env_pre.adsr_attenuation_

\* A held key's third tick in Sustain, at sustain level 1.
C28_Witness ==
    /\ KeyHeld
    /\ env_pre.adsr_phase_ = "Sustain"
    /\ env_pre.time_in_phase_ = 2
    /\ state.adsr_phase_ = "Sustain"
    /\ state.adsr_attenuation_ = 32

\* The widths a shift count may take: below the width of int.
ShiftCounts == 0..31

(* C29: in every update the shift counts used to compute sample_length       *)
(* (14 - attack_rate/4 in Attack below rate 56; rate/4 - 4 in Decay and      *)
(* Release for a rate other than 0 whose nibble is neither 1 nor 2) are      *)
(* non-negative and below the integer width, so that sample_length is a      *)
(* positive power of two, for every register-writable rate.                  *)
C29_ShiftCountsInRange ==
    env_updated =>
        /\ (StepPhase = "Attack" /\ oper.attack_rate_ < 56) =>
                14 - (oper.attack_rate_ \div 4) \in ShiftCounts
        /\ (/\ StepPhase \in {"Decay", "Release"}
            /\ DecreaseRate # 0
            /\ DecreaseRate \div 4 \notin {1, 2}) =>
                (DecreaseRate \div 4) - 4 \in ShiftCounts

(* C30: when key_on is held true from a leading edge onwards, then for every *)
(* attack rate and every envelope attenuation the edge finds, the operator   *)
(* eventually leaves Attack and enters Decay with attenuation 0.             *)
C30_AttackTerminates ==
    <>(/\ env_updated
       /\ StepPhase = "Attack"
       /\ state.adsr_phase_ = "Decay"
       /\ state.adsr_attenuation_ = 0)

\* An attack of rate 4 has left Attack from attenuation 2: its second step came a
\* whole sample_length of 2^10 ticks after its first.
C30_Witness ==
    /\ oper.attack_rate_ = 16
    /\ env_edge.attenuation = 2
    /\ env_edge.ticks = 1025
    /\ env_edge.steps = 2
    /\ env_pre.adsr_phase_ = "Attack"
    /\ state.adsr_phase_ = "Decay"
    /\ state.adsr_attenuation_ = 0

\* The update left Attack: its envelope step ran the Attack branch and ended in Decay.
AttackEnded ==
    /\ env_updated
    /\ StepPhase = "Attack"
    /\ state.adsr_phase_ = "Decay"

(* C25: from envelope attenuation 511, an operator with attack-rate nibble   *)
(* 13 (attack_rate_ 52) spends exactly 32 ticks in Attack after a key-on     *)
(* edge, and one with nibble 12 (attack_rate_ 48) goes through the same 32   *)
(* attenuation steps spread over 64 ticks.                                   *)
C25_AttackLength ==
    (AttackEnded /\ env_edge.attenuation = 511) =>
        /\ oper.attack_rate_ = 52 => env_edge.ticks = 32
        /\ oper.attack_rate_ = 48 => (env_edge.ticks = 64 /\ env_edge.steps = 32)

(* C24: an attack rate of 15 is instantaneous: with attack-rate nibble 15    *)
(* (attack_rate_ 60) the update that sees the key-on leading edge ends in    *)
(* Decay with envelope attenuation 0, whatever the attenuation was before.   *)
C24_Rate15Instantaneous ==
    (KeyOnEdge /\ oper.attack_rate_ = 60) =>
        /\ state.adsr_phase_ = "Decay"
        /\ state.adsr_attenuation_ = 0

----------------------------------------------------------------------------
(* Claims about the waveform and the output attenuation of an update.       *)

\* The phase of the most recent update and its quadrant.
UpdatePhase == Phase(state.raw_phase_, env_in.phase_offset)

\* The phase that the claimed masks hand to the log-sine lookup: the phase itself
\* for the sine, the first half wave or 0 for the half sine, the first half wave
\* repeated for the abs-sine, the first quadrant in quadrants 0 and 2 and 0 in
\* quadrants 1 and 3 for the pulse sine.
FoldedPhase(waveform, phase) ==
    LET p == phase % 1024
        quadrant == p \div 256
    IN  CASE waveform = 0 -> p
          [] waveform = 1 -> IF quadrant < 2 THEN p ELSE 0
          [] waveform = 2 -> p % 512
          [] waveform = 3 -> IF quadrant \in {0, 2} THEN p % 256 ELSE 0

\* The lookup phases claimed at the quarter-wave boundaries 0, 256, 512, 768.
BoundaryPhases ==
    << << 0, 256, 512, 768 >>,
       << 0, 256,   0,   0 >>,
       << 0, 256,   0, 256 >>,
       << 0,   0,   0,   0 >> >>

(* C15: after every update the output attenuation is the waveform magnitude  *)
(* plus envelope_attenuation + override_attenuation * 16 when an override is *)
(* supplied, and plus envelope_attenuation * 8 + static_attenuation * 32     *)
(* when none is, with the envelope attenuation this tick's step left.        *)
C15_OutputComposition ==
    env_updated =>
        LET waveform_magnitude ==
                negative_log_sin(LookupPhase(oper.waveform_, UpdatePhase)).logsin
        IN  state.attenuation.logsin =
                IF overrides.present
                THEN waveform_magnitude + state.adsr_attenuation_ + overrides.attenuation * 16
                ELSE waveform_magnitude + state.adsr_attenuation_ * 8 + oper.attenuation_ * 32

\* An update under a channel's overrides, part of the way through the attack,
\* away from the peak of the wave.
C15_Witness ==
    /\ env_updated
    /\ overrides.present /\ overrides.attenuation = 15
    /\ state.adsr_attenuation_ = 287
    /\ env_in.phase_offset = 300
    /\ state.attenuation.logsin > 287 + 240

(* C16: for every phase and each of the 4 waveforms, the phase handed to the *)
(* log-sine lookup is the phase under the waveform's quadrant mask (sine     *)
(* 1023 throughout; half sine 511, 511, 0, 0; abs-sine 511 throughout; pulse *)
(* sine 255, 0, 255, 0); at the boundaries 0, 256, 512, 768 it is            *)
(* 0/256/512/768, 0/256/0/0, 0/256/0/256 and 0/0/0/0; it is in 0..1023.      *)
C16_WaveformFolding ==
    env_updated =>
        LET lookup == LookupPhase(oper.waveform_, UpdatePhase)
        IN  /\ lookup = FoldedPhase(oper.waveform_, UpdatePhase)
            /\ lookup \in 0..1023
            /\ UpdatePhase \in {0, 256, 512, 768} =>
                    lookup = BoundaryPhases[oper.waveform_ + 1][(UpdatePhase \div 256) + 1]
            /\ state.attenuation.sign = negative_log_sin(FoldedPhase(oper.waveform_, UpdatePhase)).sign

\* An abs-sine voice updated at phase 768, which folds to 256.
C16_Witness ==
    /\ env_updated
    /\ oper.waveform_ = 2
    /\ UpdatePhase = 768
    /\ LookupPhase(oper.waveform_, UpdatePhase) = 256

----------------------------------------------------------------------------
(* Claims about the register protocol and the deferred queue.               *)

\* The step is a write() call; the step applies a queued command; the step is a tick.
WriteStep == calls' = calls + 1
PerformStep == Len(applied') = Len(applied) + 1
TickStep == render.pc = "tick" /\ render'.pc = "tick" /\ render'.remaining = render.remaining - 1

\* The operator, channel and mode state of a chip: what audio-affecting writes change.
AudioState(c) ==
    << c.operators_, c.channels_, c.depth_rhythm_control_, c.csm_keyboard_split_,
       c.waveform_enable_, c.custom_instrument_, c.rhythm_overrides_ >>

TimerState(c) == << c.timers_, c.timer_control_ >>

(* C2: deferred register writes are each applied exactly once and in the     *)
(* order write() issued them, never reordered, dropped, duplicated or        *)
(* coalesced: the writes issued are always the writes applied so far         *)
(* followed by the writes still queued.                                      *)
C2_AppliedInIssueOrder ==
    ChipLive => issued = applied \o task_queue_

\* Three writes were issued, two of them different and to an OPLL; all were applied.
C2_Witness ==
    /\ chip.personality = "OPLL"
    /\ Len(applied) = 3 /\ applied = issued
    /\ applied[1] # applied[2] /\ applied[2] = applied[3]

(* C3: in every interleaving of write() and the render call, operator,       *)
(* channel and mode state changes only in a step that applies a queued       *)
(* command while the render call drains the queue; a tick changes none of    *)
(* it and runs only after the drain, and write() changes none of it.         *)
C3_StateChangesOnlyInDrain ==
    [][ /\ (AudioState(chip') # AudioState(chip)) => (PerformStep /\ render.pc = "drain")
        /\ PerformStep => (render.pc = "drain" /\ render'.pc = "drain")
        /\ TickStep => (AudioState(chip') = AudioState(chip) /\ applied' = applied)
      ]_vars

\* The control actor has issued a write while the render actor is ticking, after
\* an earlier write was applied and changed the chip.
C3_Witness ==
    /\ render.pc = "tick" /\ render.sampled
    /\ task_queue_ # << >>
    /\ applied # << >>
    /\ chip.personality = "OPL2"
    /\ chip.operators_[0].use_sustain_level_

(* C4: every deferred write issued before a render call starts has been      *)
(* applied before that call advances its first tick, so a write is visible   *)
(* no later than the next render call.                                       *)
C4_DrainedBeforeFirstTick ==
    (ChipLive /\ render.pc = "tick") => Len(applied) >= render.issued_at_begin

\* A write issued while the first render call was ticking was applied by the second.
C4_Witness ==
    /\ render.pc = "tick" /\ render.renders = 2
    /\ render.issued_at_begin = 2 /\ Len(applied) = 2
    /\ task_queue_ # << >>

(* C5: for both chips, write(address, value) with an even address only sets  *)
(* the latched register index to value, changing no register and queueing    *)
(* nothing; with an odd address it passes value to the register latched by   *)
(* the most recent even-address write (0 if there was none) and leaves the   *)
(* latch unchanged.                                                          *)
C5_LatchThenData ==
    [][ WriteStep =>
          LET address == last_call'.address
              value   == last_call'.value
              latched == last_call.latched
          IN  IF address % 2 = 0
              THEN /\ chip' = [chip EXCEPT !.selected_register_ = value]
                   /\ task_queue_' = task_queue_
              ELSE /\ chip'.selected_register_ = chip.selected_register_
                   /\ chip.selected_register_ = latched
                   /\ IF AudioAffecting(chip, latched)
                      THEN /\ task_queue_' = Append(task_queue_, Command(latched, value))
                           /\ chip' = chip
                      ELSE /\ task_queue_' = task_queue_
                           /\ chip' = CASE latched = 2 -> [chip EXCEPT !.timers_[1] = value]
                                         [] latched = 3 -> [chip EXCEPT !.timers_[2] = value]
                                         [] OTHER       -> [chip EXCEPT !.timer_control_ = value]
      ]_vars

\* A data write after two latches went to the register latched last.
C5_Witness ==
    /\ last_call.op = "write" /\ last_call.address = 1 /\ last_call.latched = 189
    /\ calls = 3
    /\ task_queue_ = << Command(189, 37) >>
    /\ chip.selected_register_ = 189

(* C31: a value written to an odd address is applied, when the queue is      *)
(* drained, to the register that was latched at the moment that write was    *)
(* issued, even if later even-address writes changed the latched register    *)
(* before the drain: the write is recorded with the register latched then,   *)
(* and the drain changes the chip as that register's handler does.           *)
C31_AppliedToRegisterLatchedAtIssue ==
    [][ /\ (/\ WriteStep
            /\ last_call'.address % 2 = 1
            /\ AudioAffecting(chip, last_call.latched)) =>
                issued' = Append(issued, Command(last_call.latched, last_call'.value))
        /\ PerformStep =>
                LET cmd == issued[Len(applied) + 1]
                IN  chip' = IF chip.personality = "OPLL"
                            THEN OPLLApply(chip, cmd.address, cmd.value)
                            ELSE OPL2Apply(chip, cmd.address, cmd.value)
      ]_vars

\* 0x25 was written while register 0x20 was latched, then 0xbd was latched, then
\* the drain ran: the OPL2's operator 0 has multiple 5 and rhythm mode is untouched.
C31_Witness ==
    /\ chip.personality = "OPL2"
    /\ applied = << Command(32, 37) >>
    /\ task_queue_ = << >>
    /\ chip.selected_register_ = 189
    /\ chip.operators_[0].frequency_multiple_ = 5
    /\ chip.operators_[0].use_sustain_level_

\* update_all_chanels has just returned.
UpdateReturned ==
    /\ chip.personality = "OPLL"
    /\ render.pc = "tick"
    /\ render.updated

\* Whether the slots of a use of VOLUME hold its level scaled by `range`.
UseScaledBy(use, range) ==
    \A s \in use.slots : chip.output_levels_[s] = Shr(use.raw * range, 12)

\* The uses of VOLUME of the update that has just returned.
ReturnedUses == { VolumeUses(chip)[i] : i \in 1..Len(VolumeUses(chip)) }

(* C32, as stated: all 18 output slot levels computed by one OPLL            *)
(* update_all_chanels call are scaled by one and the same range value, as    *)
(* (raw_level * range) >> 12, even when set_sample_volume_range is called by *)
(* the control actor concurrently with rendering.                            *)
C32_OneRangePerUpdate ==
    UpdateReturned =>
        \E range \in render.ranges : \A use \in ReturnedUses : UseScaledBy(use, range)

(* C32, amended: every output slot level computed by one OPLL                *)
(* update_all_chanels call is scaled, as (raw_level * range) >> 12, by a     *)
(* range value that total_volume_ held during that call; all 18 are scaled   *)
(* by one and the same range value when set_sample_volume_range is not       *)
(* called by the control actor during the call.                              *)
C32_RangesHeldDuringUpdate ==
    UpdateReturned =>
        /\ \A use \in ReturnedUses : \E range \in render.ranges : UseScaledBy(use, range)
        /\ \A s \in ZeroedSlots(chip) : chip.output_levels_[s] = 0
        /\ Cardinality(render.ranges) = 1 =>
                \E range \in render.ranges : \A use \in ReturnedUses : UseScaledBy(use, range)

\* The range was set twice during a rhythm-mode update: the first melodic slot was
\* scaled by 4096, the bass drum by the last range set, and the two differ.
C32_Witness ==
    /\ UpdateReturned
    /\ RhythmMode(chip)
    /\ render.ranges = {4096, 2048, 8192}
    /\ UseScaledBy(VolumeUses(chip)[1], 4096)
    /\ UseScaledBy(VolumeUses(chip)[7], chip.total_volume_)
    /\ chip.output_levels_[3] # chip.output_levels_[15]
    /\ VolumeUses(chip)[1].raw = VolumeUses(chip)[7].raw

(* C6: OPL2 writes to registers 0x02, 0x03 and 0x04 update timers_[0],       *)
(* timers_[1] and timer_control_ inside write() and enqueue nothing; every   *)
(* other register write is enqueued and changes no timer state, neither when *)
(* issued nor when applied.                                                  *)
C6_TimersSynchronous ==
    [][ chip.personality = "OPL2" =>
          /\ (WriteStep /\ last_call'.address % 2 = 1) =>
                LET register == chip.selected_register_
                    value    == last_call'.value
                IN  CASE register = 2 ->
                           /\ chip' = [chip EXCEPT !.timers_[1] = value]
                           /\ task_queue_' = task_queue_
                      [] register = 3 ->
                           /\ chip' = [chip EXCEPT !.timers_[2] = value]
                           /\ task_queue_' = task_queue_
                      [] register = 4 ->
                           /\ chip' = [chip EXCEPT !.timer_control_ = value]
                           /\ task_queue_' = task_queue_
                      [] OTHER ->
                           /\ task_queue_' = Append(task_queue_, Command(register, value))
                           /\ chip' = chip
          /\ PerformStep => TimerState(chip') = TimerState(chip)
      ]_vars

\* A write to register 0x04 set timer_control_ and left the queue empty.
C6_Witness ==
    /\ chip.personality = "OPL2"
    /\ last_call.op = "write" /\ last_call.address = 1 /\ last_call.latched = 4
    /\ chip.timer_control_ = 255 /\ chip.timers_ = <<0, 0>>
    /\ task_queue_ = << >> /\ issued = << >>

\* The registers a personality does not map.
OPL2Unmapped(a) ==
    \/ /\ (a >= 32 /\ a < 160) \/ a >= 224
       /\ (a % 32) \in ({6, 7, 14, 15} \cup (22..31))
    \/ /\ a >= 160 /\ a < 208
       /\ (a % 16) \in 9..15
       /\ a # 189
    \/ a \in ({0} \cup (5..7) \cup (9..31) \cup (208..223))

OPLLUnmapped(a) ==
    a >= 8 /\ a # 14 /\ a \notin ((16..24) \cup (32..40) \cup (48..56))

Unmapped(c, a) ==
    IF c.personality = "OPLL" THEN OPLLUnmapped(a) ELSE OPL2Unmapped(a)

(* C7: a write to a register the personality does not map never fails and,   *)
(* once applied, leaves all operator, channel, timer and mode state          *)
(* unchanged: the step that applies it changes nothing of the chip.          *)
C7_UnmappedWritesIgnored ==
    [][ (PerformStep /\ Unmapped(chip, applied'[Len(applied')].address)) =>
            (chip' = chip /\ ChipLive') ]_vars

\* A write of 0xff to the unmapped OPL2 operator address 0x26 has been applied.
C7_Witness ==
    /\ chip.personality = "OPL2"
    /\ applied = << Command(38, 255) >>
    /\ task_queue_ = << >>

(* C17: on the OPLL, applying a write to one of registers 0..7 stores the    *)
(* byte in custom_instrument_ and changes besides only operator slots 0 and  *)
(* 1: operator slots 2..37, every channel and the mode flags are as before.  *)
C17_CustomRegistersTouchOnlyCustomPair ==
    [][ (/\ PerformStep
         /\ chip.personality = "OPLL"
         /\ applied'[Len(applied')].address < 8) =>
            /\ chip'.custom_instrument_ =
                   [chip.custom_instrument_ EXCEPT
                       ![applied'[Len(applied')].address] = applied'[Len(applied')].value]
            /\ chip' = [chip EXCEPT
                           !.custom_instrument_ = chip'.custom_instrument_,
                           !.operators_ = [chip.operators_ EXCEPT
                                              ![0] = chip'.operators_[0],
                                              ![1] = chip'.operators_[1]]] ]_vars

\* A write of 0xff to custom register 3 has been applied: both operators of the
\* custom instrument now use the second waveform.
C17_Witness ==
    /\ chip.personality = "OPLL"
    /\ applied = << Command(3, 255) >>
    /\ chip.custom_instrument_[3] = 255
    /\ chip.operators_[0].waveform_ = 1
    /\ chip.operators_[1].waveform_ = 1

\* The fields of operator slots 0 (modulator) and 1 (carrier) that are decoded from
\* byte k of the custom instrument.
ModeFields == { "apply_amplitude_modulation_", "apply_vibrato_", "use_sustain_level_",
                "key_scaling_rate_", "frequency_multiple_" }

DecodedFromByte(k) ==
    CASE k = 0 -> { <<0, f>> : f \in ModeFields }
      [] k = 1 -> { <<1, f>> : f \in ModeFields }
      [] k = 2 -> { <<0, "level_key_scaling_">>, <<0, "attenuation_">> }
      [] k = 3 -> { <<0, "waveform_">>, <<1, "waveform_">> }
      [] k = 4 -> { <<0, "attack_rate_">>, <<0, "decay_rate_">> }
      [] k = 5 -> { <<1, "attack_rate_">>, <<1, "decay_rate_">> }
      [] k = 6 -> { <<0, "sustain_level_">>, <<0, "release_rate_">> }
      [] OTHER -> { <<1, "sustain_level_">>, <<1, "release_rate_">> }

(* C35: once applied, an OPLL write to custom-instrument register k (0..7)   *)
(* changes only those fields of operator slots 0 and 1 that are decoded from *)
(* byte k; the fields decoded from the other seven instrument bytes keep the *)
(* values they had before the write, also on the first write after           *)
(* construction.                                                             *)
C35_CustomWriteChangesOnlyItsFields ==
    [][ (/\ PerformStep
         /\ chip.personality = "OPLL"
         /\ applied'[Len(applied')].address < 8) =>
            \A slot \in {0, 1} : \A f \in DOMAIN chip.operators_[slot] :
                <<slot, f>> \notin DecodedFromByte(applied'[Len(applied')].address) =>
                    chip'.operators_[slot][f] = chip.operators_[slot][f]
      ]_vars

\* The OPL2's operator register groups 0x20, 0x40, 0x60, 0x80 and 0xe0.
OperatorRegister(a) == (a \div 32) \in { 1, 2, 3, 4, 7 }

\* The setter of an operator register's group.
GroupSetter(a) ==
    CASE a \div 32 = 1 -> "set_am_vibrato_hold_sustain_ksr_multiple"
      [] a \div 32 = 2 -> "set_scaling_output"
      [] a \div 32 = 3 -> "set_attack_decay"
      [] a \div 32 = 4 -> "set_sustain_release"
      [] OTHER -> "set_waveform"

\* The operator an offset within a group names, or -1 for none.
OperatorAtOffset(o) ==
    CASE o \in 0..5   -> o
      [] o \in 8..13  -> o - 2
      [] o \in 16..21 -> o - 4
      [] OTHER -> -1

(* C23: on the OPL2, applying a write to an operator register (groups 0x20,  *)
(* 0x40, 0x60, 0x80, 0xe0) with offset o = address & 0x1f changes exactly    *)
(* one operator, through the setter of its group: operator o for o in 0..5,  *)
(* o - 2 for o in 8..13, o - 4 for o in 16..21, always within 0..17; for     *)
(* every other offset it changes no operator.                                *)
C23_OperatorRegisterDecode ==
    [][ (/\ PerformStep
         /\ chip.personality = "OPL2"
         /\ OperatorRegister(applied'[Len(applied')].address)) =>
            LET a == applied'[Len(applied')].address
                v == applied'[Len(applied')].value
                index == OperatorAtOffset(a % 32)
            IN  IF index = -1
                THEN chip'.operators_ = chip.operators_
                ELSE /\ index \in 0..17
                     /\ DOMAIN chip.operators_ = 0..17
                     /\ chip'.operators_ =
                            [chip.operators_ EXCEPT
                                ![index] = ApplySetter(GroupSetter(a), chip.operators_[index], v)]
       ]_vars

\* A write of 0xff to 0x95, the last mapped offset of the sustain/release group,
\* has been applied: operator 17 has sustain level 15 and release rate 60.
C23_Witness ==
    /\ chip.personality = "OPL2"
    /\ applied = << Command(149, 255) >>
    /\ chip.operators_[17].sustain_level_ = 15
    /\ chip.operators_[17].release_rate_ = 60
    /\ chip.operators_[16] = DefaultOperator

----------------------------------------------------------------------------
(* Claims about OPLL construction and its sample output.                    *)

RECURSIVE UpdatedTimes(_, _)
UpdatedTimes(c, n) ==
    IF n = 0 THEN c ELSE UpdatedTimes(update_all_chanels(c, FALSE), n - 1)

\* How many of the first n samples begin an update period of p samples.
PeriodsBegun(n, p) == Cardinality({ k \in 0..(n - 1) : CMod(k, p) = 0 })

(* C33: for an OPLL with no register write or scale change in between,       *)
(* rendering n samples and then m samples yields the same n + m samples, the *)
(* same final audio_offset_ and the same number of update_all_chanels calls  *)
(* as rendering n + m samples in one call: whatever the calls, after k       *)
(* samples in all audio_offset_ is k mod (72 / audio_divider),               *)
(* update_all_chanels has run once for each period of 72 / audio_divider     *)
(* samples begun, every sample is the level of a slot of the window as that  *)
(* many updates left it, and a call that has returned wrote exactly the      *)
(* number of samples requested.                                              *)
C33_SplitRenderSame ==
    (chip.personality = "OPLL" /\ scope = "split") =>
        /\ render.pc # "undefined"
        /\ ~DividesByZero(chip) =>
           LET period == CDiv(72, chip.audio_divider_)
               after == UpdatedTimes(OPLLConstruct(chip.audio_divider_, FALSE, 0, 0),
                                     render.updates)
           IN  /\ chip.audio_offset_ = CMod(render.total, period)
               /\ render.updates = PeriodsBegun(render.total, period)
               /\ chip.states_ = after.states_
               /\ chip.output_levels_ = after.output_levels_
               /\ render.sampled =>
                     /\ render.slot \in 0..17
                     /\ render.sample = after.output_levels_[render.slot]
        /\ (render.pc = "idle" /\ render.sampled) =>
                render.total = render.begun + render.requested

\* The operator slots of the modulators of instruments 0..15.
InstrumentSlots == { 2 * i : i \in 0..15 }

\* The rhythm overrides a write to channel register `address` touches.
CribbedOverrides(address) ==
    IF address \div 16 = 3 /\ address % 16 \in 6..8
    THEN { ((address % 16) - 6) * 2, ((address % 16) - 6) * 2 + 1 }
    ELSE {}

C9_LargeDividerAborts ==
    chip.audio_divider_ > 4 =>
        /\ chip.personality = "aborted"
        /\ render.pc = "idle" /\ ~render.sampled

\* The constructor was called with divider 5 and aborted.
C9_Witness ==
    chip.personality = "aborted" /\ chip.audio_divider_ = 5

\* A write to the rhythm register 0x0e has been applied.
RhythmWriteApplied == \E i \in DOMAIN applied : applied[i].address = 14

\* The slots that carry no voice: of the 18, those left over in melodic mode and
\* in rhythm mode.
UnusedSlots(rhythm) == IF rhythm THEN { 8, 12 } ELSE { 0, 1, 2, 6, 7, 8, 12, 13, 14 }

(* C18: on the OPLL, once a write to the rhythm register has been applied,   *)
(* every sample read from a slot that the mode now in force leaves unused    *)
(* (melodic: 0, 1, 2, 6, 7, 8, 12, 13, 14; rhythm: 8 and 12) is exactly 0,   *)
(* and a sample from slots 15..17 is the melodic output of channels 6..8     *)
(* only when rhythm mode is off.                                             *)
C18_UnusedSlotsSilent ==
    (/\ chip.personality = "OPLL"
     /\ render.pc # "undefined"
     /\ render.sampled
     /\ render.slot \in 0..17
     /\ RhythmWriteApplied) =>
        /\ render.slot \in UnusedSlots(RhythmMode(chip)) => render.sample = 0
        /\ render.slot \in 15..17 => (render.rhythm_at_update = RhythmMode(chip))

\* The operator that the update advanced the state of this role of channel i with.
AdvancedWith(c, i, role) ==
    IF role = "modulator" THEN ChannelPlan(c, i).mod_op ELSE ChannelPlan(c, i).car_op

(* C36: in OPLL rhythm mode the output of each percussion voice is computed  *)
(* with the operator patch that advanced the voice's state in the same       *)
(* update: the tom-tom with that of channel 8's modulator (slot 36), the     *)
(* snare with that of channel 7's carrier (slot 35), the cymbal with those   *)
(* of channel 7's modulator and channel 8's carrier (slots 34 and 37).       *)
C36_VoicesUseAdvancingPatch ==
    (/\ chip.personality = "OPLL"
     /\ render.pc = "tick"
     /\ render.updated
     /\ RhythmMode(chip)) =>
        \A voice \in DOMAIN VoiceArguments(chip) :
            \A arg \in VoiceArguments(chip)[voice] :
                arg.patch = AdvancedWith(chip, arg.channel, arg.role)

\* The slots of channels 0..5, which are melodic in either mode.
MelodicSlots == { 3, 4, 5, 9, 10, 11 }

\* No applied write has set the key-on bit of a channel.
NeverKeyed ==
    \A i \in DOMAIN applied : ~(applied[i].address \in 32..40 /\ Bit(applied[i].value, 16))

(* C20: on the OPLL, a channel whose key-on bit no write has ever set puts   *)
(* out only samples of 0: every sample read from the slot of one of          *)
(* channels 0..5 is 0, after any number of samples and any other writes.     *)
C20_NeverKeyedSilent ==
    (/\ chip.personality = "OPLL"
     /\ render.pc # "undefined"
     /\ render.sampled
     /\ render.slot \in MelodicSlots
     /\ NeverKeyed) =>
        render.sample = 0

\* Every custom register has been written by the script.
CustomWritten == Len(applied) >= 8

(* C19: once custom registers 0..7 have been written with the 8 bytes of     *)
(* fixed instrument N, operator slots 0 and 1 have the configuration of      *)
(* slots 2N and 2N + 1; and a channel playing instrument 0 renders the same  *)
(* samples as a channel playing instrument N, when both started from the     *)
(* same state and were updated from the same inputs at every update.         *)
C19_CustomMatchesFixed ==
    scope = "patch" =>
        /\ CustomWritten =>
              /\ chip.operators_[0] = chip.operators_[2 * program.instrument]
              /\ chip.operators_[1] = chip.operators_[2 * program.instrument + 1]
        /\ render.paired =>
              /\ chip.states_[0] = chip.states_[1]
              /\ chip.output_levels_[3] = chip.output_levels_[4]

\* The script has run for instrument 15 and a cycle has been rendered since
\* its last write was applied: channel 1 plays instrument 15, channel 0 the
\* custom instrument, and both have left the state they were constructed in.
C19_Witness ==
    /\ scope = "patch"
    /\ program.instrument = 15
    /\ Len(applied) = 14
    /\ chip.channels_[1].modulator = 30
    /\ chip.channels_[0].modulator = 0
    /\ render.paired
    /\ render.sampled
    /\ render.slot = 4
    /\ chip.states_[1].carrier.adsr_attenuation_ < 511
    /\ chip.states_[1].carrier.raw_phase_ > 0

----------------------------------------------------------------------------
(* Claims about the ZX Spectrum's video timing.                             *)

\* The delay the timing notes give, in half cycles: none before the first
\* delay, after 192 lines or beyond 129 cycles into a line; otherwise the entry
\* of the 16-entry table at the position within the block of 16 half cycles.
DocumentedDelay(t) ==
    LET time_since    == t - Timings.first_delay
        line_position == time_since % Timings.cycles_per_line
    IN  IF \/ t < 14361 * 2
           \/ time_since \div Timings.cycles_per_line >= 192
           \/ line_position >= 129 * 2
        THEN 0
        ELSE Timings.delays[line_position % 16]

(* C37: access_delay returns 0 outside the contended window (before half     *)
(* cycle 14361 * 2 after the interrupt, after 192 lines, or beyond 129       *)
(* cycles into a line) and inside it the entry of the 16-entry half-cycle    *)
(* table 2, 1, 0, 0, 14, 13, ..., 4, 3 at the position within each block of  *)
(* 16 half cycles: the 8-cycle pattern 1, 0, 7, 6, 5, 4, 3, 2.               *)
C37_DelayFollowsPattern ==
    (machine.kind = "video" /\ machine.asked) =>
        machine.delay = DocumentedDelay(machine.time_since_interrupt_)

----------------------------------------------------------------------------
(* Claims about the 65816's instruction table and micro-op programs.        *)

\* The locations installed_patterns holds for this generator and operation.
InstalledLocations(s, generator, operation) ==
    s.installed_patterns[GeneratorKey(access_type_for_operation(operation), generator)]

(* C38: after the construction of a ProcessorStorage, for every line         *)
(* `0xNN ... op(generator, operation)` of the opcode table, instructions[NN] *)
(* and instructions[NN + 256] hold that operation and the 8-bit and 16-bit   *)
(* program offsets of that generator's micro-op program; and an opcode whose *)
(* line has no op(...) is filled in by no install.                           *)
C38_TableLinesInstalledAtTheirOpcode ==
    (machine.kind = "storage" /\ machine.constructed) =>
        \A label \in 0..255 :
            IF label \in InstallingLabels
            THEN LET call      == TableCall(label)
                     locations == InstalledLocations(machine, call.generator, call.operation)
                 IN  /\ machine.instructions[label] =
                            [ program_offset |-> locations[1], operation |-> call.operation ]
                     /\ machine.instructions[label + 256] =
                            [ program_offset |-> locations[2], operation |-> call.operation ]
            ELSE \A i \in DOMAIN machine.installs : machine.installs[i].opcode # label

\* Whether micro_ops holds the run `steps` from index offset on.
RunsAt(micro_ops, offset, steps) ==
    /\ offset + Len(steps) <= Len(micro_ops)
    /\ SubSeq(micro_ops, offset + 1, offset + Len(steps)) = steps

\* The program install is to leave for a generator, an operation and a width.
ProgramOf(generator, operation, is8bit) ==
    Generate(generator, access_type_for_operation(operation), is8bit)
        \o << "OperationMoveToNextProgram" >>

\* The install calls whose instruction no later call has replaced.
StandingInstalls(s) ==
    { i \in DOMAIN s.installs :
        \A j \in DOMAIN s.installs : j > i => s.installs[j].opcode # s.installs[i].opcode }

(* C39: after any sequence of install calls, the 8-bit and the 16-bit        *)
(* program_offset of every installed instruction index the start of a run of *)
(* micro_ops_ that is the generator's output for the access type of the      *)
(* operation and that width, followed by OperationMoveToNextProgram; also    *)
(* when the 16-bit copy was elided and when an existing (access type,        *)
(* generator) entry was reused.                                              *)
C39_OffsetsIndexThePrograms ==
    machine.kind = "storage" =>
        \A i \in StandingInstalls(machine) :
            LET call == machine.installs[i]
            IN  /\ machine.instructions[call.opcode].operation = call.operation
                /\ machine.instructions[call.opcode + 256].operation = call.operation
                /\ RunsAt(machine.micro_ops_,
                          machine.instructions[call.opcode].program_offset,
                          ProgramOf(call.generator, call.operation, TRUE))
                /\ RunsAt(machine.micro_ops_,
                          machine.instructions[call.opcode + 256].program_offset,
                          ProgramOf(call.generator, call.operation, FALSE))

\* accumulator was installed for ASL, its 16-bit copy elided; absolute for STA,
\* in two programs; and accumulator again for LDA, reusing the entry: the third
\* call added no micro-op and both widths of opcode 2 share the program at 0.
C39_Witness ==
    /\ machine.kind = "storage"
    /\ scope = "install"
    /\ Len(machine.installs) = 3
    /\ machine.installs[1].generator = "accumulator" /\ machine.installs[1].operation = "ASL"
    /\ machine.installs[2].generator = "absolute" /\ machine.installs[2].operation = "STA"
    /\ machine.installs[3].generator = "accumulator" /\ machine.installs[3].operation = "LDA"
    /\ machine.instructions[2].program_offset = 0
    /\ machine.instructions[258].program_offset = 0
    /\ machine.instructions[1].program_offset = 5
    /\ machine.instructions[257].program_offset = 11
    /\ Len(machine.micro_ops_) = 18

----------------------------------------------------------------------------
(* Claims about the M50740 executor's performer lookup.                     *)

(* C40: performer(operation, addressing_mode) returns the function that the  *)
(* constructor's fill stored for exactly that pair, for every pair of        *)
(* [MinOperation, MaxOperation) x [MinAddressingMode, MaxAddressingMode):    *)
(* fill stored perform<operation, addressing_mode> at the index that         *)
(* performer computes for the pair, and that is what was returned.           *)
C40_PerformerIsThePairs ==
    (machine.kind = "lookup" /\ machine.constructed) =>
        /\ \A pair \in Performers(machine) :
              LET index == PerformerIndex(machine, pair[1], pair[2])
              IN  /\ index \in DOMAIN machine.performers
                  /\ machine.performers[index] = pair
        /\ machine.asked # NoPerformer => machine.returned = machine.asked

====
